---- MODULE Spec2Model ----
(***************************************************************************)
(* Breezeway ETL: the batch driver (etl/run_etl.py), the single-pair run   *)
(* (BreezewayETL.run in etl/etl_base.py), the sync tracker                 *)
(* (shared/sync_tracker.py), and the transform and load steps of           *)
(* etl/etl_base.py over concrete records.                                  *)
(*                                                                         *)
(* Nine specifications share the module:                                   *)
(*   Spec             the batch driver and the control flow of every run,  *)
(*                    with the records abstracted away;                    *)
(*   SpecTransform    BreezewayETL.transform as a function of the raw      *)
(*                    list;                                                *)
(*   SpecLoad         BreezewayETL.load over a concrete store;             *)
(*   SpecLoadTasks    the load of tasks with their tag bridge;             *)
(*   SpecExtract      BreezewayETL.extract and fetch_api_children;         *)
(*   SpecFast         scripts/fast_tasks_sync.py, the parallel variant;    *)
(*   SpecWebhook      webhook/app.py and webhook/handlers.py;               *)
(*   SpecTracker      shared/sync_tracker.py over the runs of a pair;       *)
(*   SpecTermination  the loops of the above under weak fairness.          *)
(***************************************************************************)
EXTENDS Integers, Sequences, FiniteSets, TLC

(***************************************************************************)
(* Bounds of the model.                                                    *)
(***************************************************************************)
\* how many regions of REGIONS and entities of ENTITY_CONFIGS are configured
NumRegions == 2
NumEntities == 3

\* longest raw list handed to transform alone
MaxRaw == 3
\* how many characters a raw string of a numeric field has at most
MaxText == 3
\* how many statements the sync trackers send to the database
MaxClock == 6

\* longest raw list handed to a load
MaxBatch == 2

\* DATABASE_CONFIG['batch_size'] (500 in the source), scaled down: the
\* records execute_values sends in one statement
batch_size == 1

\* etl/config.py REGIONS, in declaration order
REGIONS ==
  <<"nashville", "austin", "smoky", "hilton_head",
    "breckenridge", "sea_ranch", "mammoth", "hill_country">>

\* etl/config.py ENTITY_CONFIGS, in declaration order
ENTITY_CONFIGS ==
  <<"properties", "reservations", "tasks", "people", "supplies", "tags">>

Min(a, b) == IF a < b THEN a ELSE b

get_all_regions == SubSeq(REGIONS, 1, Min(NumRegions, Len(REGIONS)))

get_all_entities == SubSeq(ENTITY_CONFIGS, 1, Min(NumEntities, Len(ENTITY_CONFIGS)))

\* ENTITY_CONFIGS[e]['requires_property_filter']: only tasks fan out per property
requires_property_filter(e) == e = "tasks"

Range(s) == {s[i] : i \in 1..Len(s)}

VARIABLES
  \* ---- run_etl ----
  regions,          \* the selected tenants, in order
  entities,         \* the selected entities, in order
  ri, ei,           \* positions of the two nested for-loops
  current,          \* jobs started
  success, failed,  \* jobs counted as succeeded / failed
  returned,         \* value returned by run_etl (-1 while it runs)
  run_failures,     \* pairs whose BreezewayETL(...).run() raised
  calls,            \* the pairs run_single_etl was called with, in order
  failure_alerts,   \* send_failure_alert calls of the batch
  summary_alerts,   \* summary alerts emitted by send_success_summary
  \* ---- run_single_etl / BreezewayETL.run for the current pair ----
  pc,               \* position of the control flow
  reg, ent,         \* the pair being run
  exc,              \* exception in flight ("none" when none)
  caught,           \* exception caught by the except clause of run()
  raised,           \* exception that left run() ("none": returned normally)
  fail_arg,         \* argument of the tracker's fail() ("none": not called)
  faulted,          \* a fault of the environment hit this pair's own run
  pair_failed,      \* an exception left BreezewayETL(...) or run()
  fetched,          \* what extract returned: "none", "empty" or "some"
  started,          \* tracker.start() was called
  finalized,        \* times complete()/fail() updated the sync record
  pair_alerts,      \* failure alerts sent for this pair
  success_flag,     \* result of run_single_etl ("none" while it runs)
  load_committed,   \* this run's load transaction was committed
  tracker_conn,     \* the tracker's own connection: "ok" or "error"
  sync_status,      \* etl_sync_log.sync_status of (reg, ent)
  error_message,    \* etl_sync_log.error_message of (reg, ent)
  conn,             \* transaction status of the shared db_conn
  \* ---- the records and the store of a run (SpecTransform, SpecLoad) ----
  raw,              \* raw_data: the list extract returned
  parent_records,   \* parents returned by transform
  child_records,    \* children returned by transform, by child table
  transformed,      \* parents transformed before the de-duplication
  duplicates_found, \* duplicates_found of transform
  errors,           \* stats['errors']
  store,            \* the committed rows of every table
  db,               \* the rows as the connection's transaction sees them
  pre_store,        \* the committed rows when the run began
  now,              \* datetime.now() / CURRENT_TIMESTAMP of the run
  \* ---- the API and the extraction of a run (SpecExtract) ----
  api_format,       \* body of the entity's endpoint: "dict" or "list"
  api_records,      \* the records the source holds for the endpoint
  api_tasks,        \* the tasks the source holds, by property (home_id)
  properties,       \* the rows _extract_tasks selects from properties
  token_valid,      \* api_tokens holds an access token that has not expired
  page,             \* page of _extract_standard
  pidx,             \* position of the for-loop over properties / parents
  cidx,             \* position of the for-loop over the API child tables
  all_records,      \* all_records / all_tasks of the extractor
  child_records_list, \* child_records_list of fetch_api_children
  requests_log,     \* the HTTP requests issued, in order, with their answers
  api_calls,        \* stats['api_calls']
  tracker_api_calls, \* tracker.stats['api_calls']
  faults,           \* requests and statements of the run that failed
  \* ---- the counters of a run ----
  records_inserted, \* stats['records_inserted']
  records_updated,  \* stats['records_updated']
  sync_record,      \* the etl_sync_log row of (reg, ent)
  tracker_stats,    \* tracker.stats['new'] and tracker.stats['updated']
  \* ---- scripts/fast_tasks_sync.py (SpecFast) ----
  main_pc,          \* position of main
  futures,          \* state of the fetch_region future of every region
  props,            \* per region: properties not yet handed to a thread
  fetches,          \* per region: running fetch_tasks_for_property, by page
  all_tasks,        \* per region: all_tasks of fetch_region ("empty"/"some")
  fast_records,     \* all_records of main ("empty"/"some")
  writing,          \* the threads that execute a writing statement
  writes,           \* the writing statements executed, in order
  \* ---- webhook/app.py, webhook/handlers.py (SpecWebhook) ----
  wh_pc,            \* position of the handler of the POST being served
  webhook_type,     \* "property-status" or "task"
  payload,          \* the parsed body of the POST
  event_id,         \* id log_webhook_event returned (0: none)
  update_error,     \* error_message of process_*_event
  webhook_events,   \* the rows of webhook_events, by id
  response,         \* the response to the last POST
  \* ---- shared/sync_tracker.py over the runs of a pair (SpecTracker) ----
  etl_sync_log,     \* the rows of breezeway.etl_sync_log
  trackers,         \* per pair: the call its SyncTracker is at, its connection
  clock,            \* the database's clock
  completed_at      \* per pair: when complete() last returned, if ever

driverVars == <<regions, entities, ri, ei, current, success, failed, returned,
                run_failures, calls, failure_alerts, summary_alerts>>
runVars == <<pc, reg, ent, exc, caught, raised, fail_arg, faulted, pair_failed,
             fetched, started,
             finalized, pair_alerts, success_flag, load_committed,
             tracker_conn, sync_status, error_message, conn>>
runVars_but_pc == <<reg, ent, exc, caught, raised, fail_arg, faulted, pair_failed,
                    fetched, started, finalized, pair_alerts, success_flag,
                    load_committed, tracker_conn, sync_status, error_message,
                    conn>>
flagVars == <<caught, raised, fail_arg, pair_failed, fetched, started,
              finalized, pair_alerts, success_flag, load_committed,
              tracker_conn, sync_status, error_message>>
dataVars == <<raw, parent_records, child_records, transformed,
              duplicates_found, errors, store, db, pre_store, now>>
extractVars == <<api_format, api_records, api_tasks, properties, token_valid,
                 page, pidx, cidx, all_records, child_records_list,
                 requests_log, api_calls, tracker_api_calls, faults>>
statsVars == <<records_inserted, records_updated, sync_record,
               tracker_stats>>
fastVars == <<main_pc, futures, props, fetches, all_tasks, fast_records,
              writing, writes>>
baselineVars == <<driverVars, runVars, dataVars, extractVars, statsVars>>
webhookVars == <<wh_pc, webhook_type, payload, event_id, update_error,
                 webhook_events, response>>
trackerVars == <<etl_sync_log, trackers, clock, completed_at>>
vars == <<baselineVars, fastVars, webhookVars, trackerVars>>

(***************************************************************************)
(* psycopg2 connection (autocommit off).  A statement that fails leaves    *)
(* the transaction aborted: every later statement on the connection is     *)
(* refused until rollback().                                               *)
(***************************************************************************)
ConnStatus == {"IDLE", "INTRANS", "INERROR"}

\* connection.rollback(): ends the transaction, whatever its status
rollback(c) == "IDLE"

(***************************************************************************)
(* Values of the Python and of the SQL level.  A JSON object is a function *)
(* from its keys; a key the object does not hold is not in its DOMAIN.     *)
(* Values whose type the code tests (isinstance) carry a tag t.            *)
(***************************************************************************)
\* Python None, JSON null, SQL NULL of a text column
None == "<None>"

\* SQL NULL of an integer key column (surrogate keys start at 1)
NullPk == 0

NoneV == [t |-> "none"]
DictV(d) == [t |-> "dict", v |-> d]
ListV(s) == [t |-> "list", v |-> s]
StrV(s) == [t |-> "str", v |-> s]
\* a number, and a str spelled out as the sequence of its characters
NumV(n) == [t |-> "num", v |-> n]
TextV(cs) == [t |-> "text", v |-> cs]

\* dict.get(k, default)
get(d, k, default) == IF k \in DOMAIN d THEN d[k] ELSE default

\* str(v)
str(v) == IF v = None THEN "None" ELSE v

\* truth value of a string or None
truthy(v) == v \notin {None, ""}

(***************************************************************************)
(* etl/config.py ENTITY_CONFIGS for the entities whose records are         *)
(* modelled (properties, reservations, tasks, tags), with a subset of      *)
(* their columns and, for tasks, the tag-bridge child table.               *)
(***************************************************************************)
DataEntities == {"properties", "reservations"}

api_id_field(e) == "id"

table_name(e) == e

natural_key(e) ==
  IF e = "properties" THEN <<"property_id", "region_code">>
  ELSE IF e = "tasks" THEN <<"task_id", "region_code">>
  ELSE IF e = "tags" THEN <<"tag_id", "region_code">>
  ELSE <<"reservation_id", "region_code">>

transform_filter_status(e) == IF e = "properties" THEN "active" ELSE None

fields_mapping(e) ==
  IF e = "properties"
  THEN [id |-> "property_id", name |-> "property_name",
        status |-> "property_status", company_id |-> "company_id",
        latitude |-> "latitude_numeric"]
  ELSE IF e = "tasks"
  THEN [id |-> "task_id", home_id |-> "home_id", name |-> "task_name",
        rate_paid |-> "rate_paid"]
  ELSE IF e = "tags"
  THEN [id |-> "tag_id", name |-> "tag_name"]
  ELSE [id |-> "reservation_id", property_id |-> "property_id",
        status |-> "reservation_status", note |-> "reservation_note"]

nested_fields(e) ==
  IF e = "properties" THEN [notes |-> [about |-> "property_notes_general"]]
  ELSE <<>>

child_tables(e) ==
  IF e = "properties"
  THEN [photos |-> [table_name |-> "property_photos", api_field |-> "photos",
                    parent_fk |-> "property_pk",
                    natural_key |-> <<"photo_id", "property_pk">>]]
  ELSE IF e = "tasks"
  THEN [task_tags |-> [table_name |-> "task_tags", api_field |-> "task_tags",
                       parent_fk |-> "task_pk",
                       natural_key |-> <<"task_pk", "tag_pk">>],
        supplies |-> [table_name |-> "task_supplies", api_field |-> "supplies",
                      parent_fk |-> "task_pk",
                      natural_key |-> <<"task_pk", "supply_usage_id">>,
                      fields_mapping |-> [id |-> "supply_usage_id",
                                          name |-> "name"]],
        costs |-> [table_name |-> "task_costs", api_field |-> "costs",
                   parent_fk |-> "task_pk",
                   natural_key |-> <<"task_pk", "cost_id">>,
                   fields_mapping |-> [id |-> "cost_id", cost |-> "cost"],
                   nested_fields |->
                     [type_cost |-> [id |-> "type_cost_id",
                                     code |-> "type_cost_code",
                                     name |-> "type_cost_name"]]]]
  ELSE IF e = "tags" THEN <<>>
  ELSE [guests |-> [table_name |-> "reservation_guests", api_field |-> "guests",
                    parent_fk |-> "reservation_pk",
                    natural_key |-> <<"reservation_pk", "guest_name",
                                      "guest_email">>]]

\* the column that holds the API identifier of a parent
parent_db_id_field(e) == fields_mapping(e)[api_id_field(e)]

\* the columns of the tables (the store's schema)
TableColumns(t) ==
  CASE t = "properties" ->
         {"id", "region_code", "property_id", "property_name",
          "property_status", "company_id", "latitude_numeric",
          "property_notes_general", "synced_at",
          "created_at", "updated_at"}
    [] t = "reservations" ->
         {"id", "region_code", "reservation_id", "property_id",
          "reservation_status", "reservation_note", "property_pk",
          "synced_at", "created_at", "updated_at"}
    [] t = "property_photos" ->
         {"id", "region_code", "property_pk", "photo_id", "caption"}
    [] t = "reservation_guests" ->
         {"id", "region_code", "reservation_pk", "guest_name", "guest_email"}
    [] t = "tasks" ->
         {"id", "region_code", "task_id", "home_id", "task_name",
          "rate_paid", "property_pk", "synced_at", "created_at",
          "updated_at"}
    [] t = "task_tags" -> {"id", "region_code", "task_pk", "tag_pk"}
    [] t = "task_supplies" ->
         {"id", "region_code", "task_pk", "supply_usage_id", "name"}
    [] t = "task_costs" ->
         {"id", "region_code", "task_pk", "cost_id", "cost", "type_cost_id",
          "type_cost_code", "type_cost_name"}
    [] t = "tags" ->
         {"id", "region_code", "tag_id", "tag_name", "synced_at",
          "created_at", "updated_at"}

Tables == {"properties", "reservations", "property_photos", "reservation_guests",
           "tasks", "task_tags", "task_supplies", "task_costs", "tags"}

IntColumns == {"id", "property_pk", "reservation_pk", "task_pk", "tag_pk",
               "synced_at", "created_at", "updated_at"}

\* SQL NULL of a column
Null(c) == IF c \in IntColumns THEN NullPk ELSE None

\* keys of a record that start with '_' (internal fields)
InternalFields == {"_parent_api_id"}

(***************************************************************************)
(* BreezewayETL.transform                                                  *)
(***************************************************************************)
\* value of a decimal digit
digit ==
  [c \in {"0", "1", "2", "3", "4", "5", "6", "7", "8", "9"} |->
     CASE c = "0" -> 0 [] c = "1" -> 1 [] c = "2" -> 2 [] c = "3" -> 3
       [] c = "4" -> 4 [] c = "5" -> 5 [] c = "6" -> 6 [] c = "7" -> 7
       [] c = "8" -> 8 [] c = "9" -> 9]

\* a non-empty run of decimal digits, and the number it spells
numeral(cs) == cs # <<>> /\ \A i \in 1..Len(cs) : cs[i] \in DOMAIN digit

RECURSIVE number(_)
number(cs) ==
  IF cs = <<>> THEN 0
  ELSE 10 * number(SubSeq(cs, 1, Len(cs) - 1)) + digit[cs[Len(cs)]]

\* str.strip() and str.split()[0] on a sequence of characters (the only
\* whitespace of the model is the blank); split()[0] of a str without a word
\* raises IndexError, written <<>> here because a word is never empty
RECURSIVE lstrip(_)
lstrip(cs) == IF cs # <<>> /\ Head(cs) = " " THEN lstrip(Tail(cs)) ELSE cs

RECURSIVE rstrip(_)
rstrip(cs) ==
  IF cs # <<>> /\ cs[Len(cs)] = " " THEN rstrip(SubSeq(cs, 1, Len(cs) - 1))
  ELSE cs

strip(cs) == rstrip(lstrip(cs))

RECURSIVE word(_)
word(cs) ==
  IF cs = <<>> \/ Head(cs) = " " THEN <<>>
  ELSE <<Head(cs)>> \o word(Tail(cs))

first_word(cs) == word(lstrip(cs))

\* bool(value)
truth(value) ==
  CASE value.t = "none" -> FALSE
    [] value.t = "num" -> value.v # 0
    [] value.t = "dict" -> DOMAIN value.v # {}
    [] OTHER -> value.v # <<>>

\* float(value): a number, or a str that spells one once stripped (signs,
\* fractions and exponents are outside the alphabet of the model); the
\* float n is written "n.0"
to_float(value) ==
  CASE value.t = "num" -> [ok |-> TRUE, v |-> ToString(value.v) \o ".0"]
    [] value.t = "text" ->
         IF numeral(strip(value.v))
         THEN [ok |-> TRUE, v |-> ToString(number(strip(value.v))) \o ".0"]
         ELSE [ok |-> FALSE, v |-> "ValueError"]
    [] OTHER -> [ok |-> FALSE, v |-> "TypeError"]

\* int(value); the int n is written "n"
to_int(value) ==
  CASE value.t = "num" -> [ok |-> TRUE, v |-> ToString(value.v)]
    [] value.t = "text" ->
         IF numeral(strip(value.v))
         THEN [ok |-> TRUE, v |-> ToString(number(strip(value.v)))]
         ELSE [ok |-> FALSE, v |-> "ValueError"]
    [] OTHER -> [ok |-> FALSE, v |-> "TypeError"]

\* the columns _transform_parent converts to numbers
NumericColumns ==
  {"latitude_numeric", "longitude_numeric", "company_id", "rate_paid"}

\* _transform_parent lines 309-329: the type conversion of a mapped value;
\* every exception of the conversion is caught and gives None
coerced(db_column, value) ==
  LET converted(r) == IF r.ok THEN r.v ELSE None
  IN IF value.t = "none" THEN None
     ELSE IF db_column \in {"latitude_numeric", "longitude_numeric"}
     THEN IF truth(value) THEN converted(to_float(value)) ELSE None
     ELSE IF db_column = "company_id"
     THEN IF truth(value) THEN converted(to_int(value)) ELSE None
     ELSE IF value.t = "text"
          THEN IF first_word(value.v) = <<>> THEN None
               ELSE converted(to_float(TextV(first_word(value.v))))
          ELSE IF truth(value) THEN converted(to_float(value)) ELSE None

\* _transform_parent: region_code, the mapped fields with their type
\* conversions, the flattened nested fields (only when the nested value is a
\* dict; a missing key defaults to {}), synced_at
_transform_parent(e, rc, ts, record) ==
  LET fm == fields_mapping(e)
      nf == nested_fields(e)
      field(c) == CHOOSE f \in DOMAIN fm : fm[f] = c
      direct == [c \in {fm[f] : f \in DOMAIN fm} |->
                   IF c \in NumericColumns
                   THEN coerced(c, get(record, field(c), NoneV))
                   ELSE get(record, field(c), None)]
      present == {pf \in DOMAIN nf : get(record, pf, DictV(<<>>)).t = "dict"}
      ncols == UNION {{nf[pf][sf] : sf \in DOMAIN nf[pf]} : pf \in present}
      nested == [c \in ncols |->
                   LET pf == CHOOSE p \in present :
                               \E s \in DOMAIN nf[p] : nf[p][s] = c
                       sf == CHOOSE s \in DOMAIN nf[pf] : nf[pf][s] = c
                   IN get(get(record, pf, DictV(<<>>)).v, sf, None)]
  IN [synced_at |-> ts] @@ nested @@ direct @@ [region_code |-> rc]

\* the columns of one child, by child table (lines 362-436); a child table
\* without a branch of its own (supplies, costs) gets no column
child_columns(e, child_name, child) ==
  IF child_name = "photos"
  THEN [photo_id |-> str(get(child, "id", "")),
        caption |-> get(child, "caption", None)]
  ELSE IF child_name = "task_tags"
  THEN LET tag_id == str(get(child, "id", ""))
       IN IF truthy(tag_id) THEN [tag_id |-> tag_id] ELSE <<>>
  ELSE IF child_name = "guests"
  THEN [guest_name |-> get(child, "name", None),
        guest_email |-> get(child, "email", None)]
  ELSE <<>>

\* _transform_children without the isinstance test of line 358: the loop
\* over a value that is not a list raises
_transform_children_Unchecked(e, rc, record, child_name) ==
  LET cfg == child_tables(e)[child_name]
      cr == get(record, cfg.api_field, ListV(<<>>))
      items == IF cr.t = "list" THEN cr.v ELSE <<>>
      raises == cr.t # "list" \/ \E i \in 1..Len(items) : items[i].t # "dict"
      one(child) ==
        [_parent_api_id |-> str(get(record, api_id_field(e), ""))]
          @@ child_columns(e, child_name, child) @@ [region_code |-> rc]
  IN [ok |-> ~raises,
      rows |-> IF raises THEN <<>>
               ELSE [i \in 1..Len(items) |-> one(items[i].v)]]

\* _transform_children: the list under api_field (anything but a list counts
\* as empty); child.get raises on an element that is not a dict
_transform_children(e, rc, record, child_name) ==
  LET cfg == child_tables(e)[child_name]
      cr == get(record, cfg.api_field, ListV(<<>>))
      items == IF cr.t = "list" THEN cr.v ELSE <<>>
      raises == \E i \in 1..Len(items) : items[i].t # "dict"
      one(child) ==
        [_parent_api_id |-> str(get(record, api_id_field(e), ""))]
          @@ child_columns(e, child_name, child) @@ [region_code |-> rc]
  IN [ok |-> ~raises,
      rows |-> IF raises THEN <<>>
               ELSE [i \in 1..Len(items) |-> one(items[i].v)]]

\* tuple(record.get(k) for k in keys)
key_tuple(record, keys) ==
  [i \in 1..Len(keys) |-> get(record, keys[i], Null(keys[i]))]

\* the de-duplication loop keeping the last record of a key instead
RECURSIVE deduplicate_KeepLast(_, _)
deduplicate_KeepLast(records, keys) ==
  IF records = <<>> THEN [kept |-> <<>>, duplicates |-> 0]
  ELSE LET rest == deduplicate_KeepLast(Tail(records), keys)
           later == {key_tuple(rest.kept[i], keys) : i \in 1..Len(rest.kept)}
       IN IF key_tuple(Head(records), keys) \notin later
          THEN [kept |-> <<Head(records)>> \o rest.kept,
                duplicates |-> rest.duplicates]
          ELSE [kept |-> rest.kept, duplicates |-> rest.duplicates + 1]

\* the de-duplication loop (transform lines 277-291, _upsert_children lines
\* 807-820): the first record of a key is kept, later ones are counted
RECURSIVE deduplicate(_, _)
deduplicate(records, keys) ==
  IF records = <<>> THEN [kept |-> <<>>, duplicates |-> 0]
  ELSE LET n == Len(records)
           last == records[n]
           rest == deduplicate(SubSeq(records, 1, n - 1), keys)
           seen == {key_tuple(rest.kept[i], keys) : i \in 1..Len(rest.kept)}
       IN IF key_tuple(last, keys) \notin seen
          THEN [kept |-> Append(rest.kept, last), duplicates |-> rest.duplicates]
          ELSE [kept |-> rest.kept, duplicates |-> rest.duplicates + 1]

\* transform lines 261-275: the loop over the records.  The parent is
\* appended before the children are transformed; an exception skips the rest
\* of the record and counts one error.
RECURSIVE transform_loop(_, _, _, _)
transform_loop(e, rc, ts, records) ==
  IF records = <<>>
  THEN [parents |-> <<>>, children |-> [cn \in DOMAIN child_tables(e) |-> <<>>],
        errors |-> 0]
  ELSE LET record == Head(records)
           rest == transform_loop(e, rc, ts, Tail(records))
           tc == [cn \in DOMAIN child_tables(e) |->
                    _transform_children(e, rc, record, cn)]
           raised_ == \E cn \in DOMAIN tc : ~tc[cn].ok
       IN [parents |-> <<_transform_parent(e, rc, ts, record)>> \o rest.parents,
           children |-> [cn \in DOMAIN tc |-> tc[cn].rows \o rest.children[cn]],
           errors |-> rest.errors + (IF raised_ THEN 1 ELSE 0)]

\* transform without the status filter of lines 246-253
transform_Unfiltered(e, rc, ts, records) ==
  LET out == transform_loop(e, rc, ts, records)
      dd == deduplicate(out.parents, natural_key(e))
  IN [parents |-> dd.kept, children |-> out.children, errors |-> out.errors,
      transformed |-> Len(out.parents), duplicates |-> dd.duplicates]

\* transform: the status filter, the loop, the de-duplication of the parents
transform(e, rc, ts, records) ==
  LET status_filter == transform_filter_status(e)
      Passes(r) == get(r, "status", None) = status_filter
      filtered == IF truthy(status_filter) THEN SelectSeq(records, Passes)
                  ELSE records
      out == transform_loop(e, rc, ts, filtered)
      dd == deduplicate(out.parents, natural_key(e))
  IN [parents |-> dd.kept, children |-> out.children, errors |-> out.errors,
      transformed |-> Len(out.parents), duplicates |-> dd.duplicates]

(***************************************************************************)
(* The store: for every table the set of its rows.  BreezewayETL.load      *)
(* works on the view of its connection's transaction; COMMIT makes the     *)
(* view the committed store, rollback() discards it.                       *)
(***************************************************************************)
EmptyStore == [t \in Tables |-> {}]

MaxId(rows) ==
  IF rows = {} THEN 0
  ELSE CHOOSE m \in {r.id : r \in rows} : \A r \in rows : r.id <= m

\* connection.rollback() leaving the writes of the transaction in the view
rolled_back_KeepWrites(view, committed) == view

\* connection.rollback(): the view falls back to the committed store
rolled_back(view, committed) == committed

\* the rows a record of the statement conflicts with on the key `conflict`
conflicting(rows, cols, conflict, rec) ==
  LET val(c) == IF c \in cols THEN get(rec, c, Null(c)) ELSE Null(c)
  IN {r \in rows : \A i \in 1..Len(conflict) :
         /\ val(conflict[i]) # Null(conflict[i])
         /\ r[conflict[i]] = val(conflict[i])}

\* INSERT INTO t (cols) VALUES records ON CONFLICT (conflict) DO UPDATE SET
\* c = EXCLUDED.c for c in upd [, updated_at = CURRENT_TIMESTAMP]; with upd
\* empty and no stamp it is DO NOTHING.  A NULL in the key never conflicts.
RECURSIVE insert_on_conflict(_, _, _, _, _, _, _, _)
insert_on_conflict(rows, t, cols, conflict, upd, stamp, ts, records) ==
  IF records = <<>> THEN rows
  ELSE LET rec == Head(records)
           val(c) == IF c \in cols THEN get(rec, c, Null(c)) ELSE Null(c)
           hit == conflicting(rows, cols, conflict, rec)
           inserted ==
             [c \in TableColumns(t) |->
                IF c = "id" THEN MaxId(rows) + 1
                ELSE IF c \in cols THEN val(c)
                ELSE IF c \in {"created_at", "updated_at"} THEN ts
                ELSE Null(c)]
           updated(r) ==
             [c \in DOMAIN r |->
                IF c \in upd THEN val(c)
                ELSE IF c = "updated_at" /\ stamp THEN ts
                ELSE r[c]]
           new == IF hit = {} THEN rows \cup {inserted}
                  ELSE (rows \ hit) \cup {updated(r) : r \in hit}
       IN insert_on_conflict(new, t, cols, conflict, upd, stamp, ts,
                             Tail(records))

\* what makes the statement fail: a column the table does not have, or two
\* records of one statement with the same conflict key
statement_fails(t, cols, conflict, records) ==
  \/ ~(cols \subseteq TableColumns(t))
  \/ \E i, j \in 1..Len(records) :
        /\ i < j
        /\ key_tuple(records[i], conflict) = key_tuple(records[j], conflict)
        /\ \A k \in 1..Len(conflict) :
              get(records[i], conflict[k], Null(conflict[k])) # Null(conflict[k])

\* RETURNING (xmax = 0) AS inserted: for every record of the statements, in
\* order, whether its row is a fresh insert
returning_inserted(rows, t, cols, conflict, upd, stamp, ts, records) ==
  [k \in 1..Len(records) |->
     conflicting(insert_on_conflict(rows, t, cols, conflict, upd, stamp, ts,
                                    SubSeq(records, 1, k - 1)),
                 cols, conflict, records[k]) = {}]

\* psycopg2 execute_values(cur, query, values, page_size): the first record
\* of the last of the statements it executes, one for every page_size records
last_page_start(n, page_size) == ((n - 1) \div page_size) * page_size + 1

\* the pages execute_values splits the records into
paginate(records, page_size) ==
  [p \in 1..((Len(records) + page_size - 1) \div page_size) |->
     SubSeq(records, (p - 1) * page_size + 1, Min(p * page_size, Len(records)))]

\* cur.fetchall() after execute_values without fetch=True: the cursor holds
\* the result of the last statement only
fetchall(results, page_size) ==
  SubSeq(results, last_page_start(Len(results), page_size), Len(results))

\* _upsert_parents: the columns are those of the first record; inserted and
\* updated are counted over the rows cur.fetchall() returns
_upsert_parents(view, e, ts, records) ==
  IF records = <<>>
  THEN [ok |-> TRUE, view |-> view, inserted |-> 0, updated |-> 0]
  ELSE LET t == table_name(e)
           natural_keys == natural_key(e)
           columns == DOMAIN records[1] \ InternalFields
           update_columns == {c \in columns :
                                c \notin Range(natural_keys) /\ c # "created_at"}
           pages == paginate(records, batch_size)
           results == fetchall(returning_inserted(view[t], t, columns,
                                                  natural_keys, update_columns,
                                                  TRUE, ts, records),
                               batch_size)
           inserted == Cardinality({i \in DOMAIN results : results[i]})
       IN IF \E p \in DOMAIN pages :
               statement_fails(t, columns, natural_keys, pages[p])
          THEN [ok |-> FALSE, view |-> view, inserted |-> 0, updated |-> 0]
          ELSE [ok |-> TRUE,
                view |-> [view EXCEPT ![t] =
                            insert_on_conflict(@, t, columns, natural_keys,
                                               update_columns, TRUE, ts,
                                               records)],
                inserted |-> inserted,
                updated |-> Len(results) - inserted]

\* the guard dropped: every matching row is a target of the UPDATE
fk_is_unset_Ignored(r) == TRUE

\* _resolve_parent_fks lines 694 and 708: AND property_pk IS NULL
fk_is_unset(r) == r.property_pk = NullPk

\* the column that refers to the property: r.property_id of a reservation
\* (line 691), t.home_id of a task (line 705)
fk_reference(r) == IF "home_id" \in DOMAIN r THEN r.home_id ELSE r.property_id

\* the join without AND r.region_code = p.region_code
fk_match_AnyTenant(view, r) ==
  {p \in view["properties"] :
     /\ fk_reference(r) # None
     /\ fk_reference(r) = p.property_id}

\* the properties a reservation or task row joins with (lines 691-692,
\* 705-706): same property_id, same tenant
fk_match(view, r) ==
  {p \in view["properties"] :
     /\ fk_reference(r) # None
     /\ fk_reference(r) = p.property_id
     /\ r.region_code = p.region_code}

\* the rows the UPDATE of _resolve_parent_fks updates (cur.rowcount counts
\* them)
fk_update_targets(view, e, rc) ==
  IF e \in {"reservations", "tasks"}
  THEN {r \in view[table_name(e)] :
          r.region_code = rc /\ fk_is_unset(r) /\ fk_match(view, r) # {}}
  ELSE {}

\* _resolve_parent_fks: reservations and tasks get property_pk from the
\* property of the same tenant with the same property_id, where property_pk
\* IS NULL (the tasks table is modelled without linked_reservation_id)
_resolve_parent_fks(view, e, rc) ==
  IF e \in {"reservations", "tasks"}
  THEN [view EXCEPT ![table_name(e)] =
          {IF r \in fk_update_targets(view, e, rc)
           THEN [r EXCEPT !.property_pk = (CHOOSE p \in fk_match(view, r) : TRUE).id]
           ELSE r : r \in @}]
  ELSE view

\* _upsert_children lines 749-758: API identifier -> surrogate key of the
\* tenant's parent rows
parent_mapping(rows, id_field, rc) ==
  LET mine == {r \in rows : r.region_code = rc}
  IN [k \in {str(r[id_field]) : r \in mine} |->
        (CHOOSE r \in mine : str(r[id_field]) = k).id]

\* the child batch with nothing filtered out
without_parent_fk_dropped_KeepAll(records, parent_fk) == records

\* _upsert_children line 769: records without the parent FK are dropped
without_parent_fk_dropped(records, parent_fk) ==
  LET Has(r) == parent_fk \in DOMAIN r IN SelectSeq(records, Has)

\* the parent rows as committed before this load
mapping_source_Committed(view, committed) == committed

\* the parent mapping is read through the cursor of the load's transaction
mapping_source(view, committed) == view

\* _upsert_children lines 761-769: the parent FK from the mapping, records
\* without it dropped
child_resolved(view, committed, e, rc, child_type, records) ==
  LET cfg == child_tables(e)[child_type]
      parent_fk == cfg.parent_fk
      pm == parent_mapping(mapping_source(view, committed)[table_name(e)],
                           parent_db_id_field(e), rc)
      resolve(r) ==
        LET parent_api_id == get(r, "_parent_api_id", None)
            popped == [c \in DOMAIN r \ {"_parent_api_id"} |-> r[c]]
        IN IF truthy(parent_api_id) /\ parent_api_id \in DOMAIN pm
           THEN [c \in {parent_fk} |-> pm[parent_api_id]] @@ popped
           ELSE popped
      resolved == [i \in 1..Len(records) |-> resolve(records[i])]
  IN without_parent_fk_dropped(resolved, parent_fk)

\* the tag mapping read without the tenant filter
tag_mapping_AllTenants(rows, rc) ==
  [k \in {str(r.tag_id) : r \in rows} |->
     (CHOOSE r \in rows : str(r.tag_id) = k /\
        \A q \in rows : str(q.tag_id) = k => q.id >= r.id).id]

\* _upsert_children lines 777-786: tag_id -> surrogate key of the tenant's
\* tags rows
tag_mapping(rows, rc) ==
  LET mine == {r \in rows : r.region_code = rc}
  IN [k \in {str(r.tag_id) : r \in mine} |->
        (CHOOSE r \in mine : str(r.tag_id) = k).id]

\* _upsert_children lines 774-801: for task_tags, tag_id is popped and
\* replaced by tag_pk from the mapping; records without tag_pk are dropped
tag_resolved(view, rc, child_type, records) ==
  IF child_type = "task_tags" /\ records # <<>>
  THEN LET tm == tag_mapping(view["tags"], rc)
           resolve(r) ==
             LET tag_id == get(r, "tag_id", None)
                 popped == [c \in DOMAIN r \ {"tag_id"} |-> r[c]]
             IN IF truthy(tag_id) /\ tag_id \in DOMAIN tm
                THEN [c \in {"tag_pk"} |-> tm[tag_id]] @@ popped
                ELSE popped
           resolved == [i \in 1..Len(records) |-> resolve(records[i])]
           Has(r) == "tag_pk" \in DOMAIN r
       IN SelectSeq(resolved, Has)
  ELSE records

\* the batch handed on as it is
child_deduplicated_Skipped(records, natural_keys) == records

\* _upsert_children lines 803-821: with a natural key the batch is
\* de-duplicated on it
child_deduplicated(records, natural_keys) ==
  IF natural_keys # <<>> THEN deduplicate(records, natural_keys).kept
  ELSE records

\* the batch _upsert_children hands to execute_values
child_batch(view, committed, e, rc, child_type, records) ==
  child_deduplicated(
    tag_resolved(view, rc, child_type,
                 child_resolved(view, committed, e, rc, child_type, records)),
    child_tables(e)[child_type].natural_key)

\* _upsert_children: parent FK from the mapping, unresolved records dropped,
\* the tag reference of the tag bridge resolved, de-duplication on the natural key, upsert with the first record's columns
_upsert_children(view, committed, e, rc, ts, child_type, records) ==
  IF records = <<>> THEN [ok |-> TRUE, view |-> view]
  ELSE
    LET cfg == child_tables(e)[child_type]
        t == cfg.table_name
        batch == child_batch(view, committed, e, rc, child_type, records)
    IN IF batch = <<>> THEN [ok |-> TRUE, view |-> view]
       ELSE
         LET columns == DOMAIN batch[1]
             update_columns == {c \in columns :
                                  /\ c \notin Range(cfg.natural_key)
                                  /\ c \notin {"id", "created_at"}}
             pages == paginate(batch, batch_size)
         IN IF \E p \in DOMAIN pages :
                 statement_fails(t, columns, cfg.natural_key, pages[p])
            THEN [ok |-> FALSE, view |-> view]
            ELSE [ok |-> TRUE,
                  view |-> [view EXCEPT ![t] =
                              insert_on_conflict(@, t, columns, cfg.natural_key,
                                                 update_columns, FALSE, ts,
                                                 batch)]]

\* the child types of an entity in the order of the child loop of load
child_types(e) ==
  IF e = "properties" THEN <<"photos">>
  ELSE IF e = "tasks" THEN <<"task_tags", "supplies", "costs">>
  ELSE IF e = "tags" THEN <<>>
  ELSE <<"guests">>

\* load lines 610-612: every non-empty child batch is upserted
RECURSIVE upsert_all_children(_, _, _, _, _, _, _)
upsert_all_children(view, committed, e, rc, ts, types, children) ==
  IF types = <<>> THEN [ok |-> TRUE, view |-> view]
  ELSE LET one == _upsert_children(view, committed, e, rc, ts, Head(types),
                                   children[Head(types)])
       IN IF one.ok
          THEN upsert_all_children(one.view, committed, e, rc, ts, Tail(types),
                                   children)
          ELSE one

\* load without a failure: the store it commits
load(committed, e, rc, ts, parents, children) ==
  LET p == _upsert_parents(committed, e, ts, parents)
      f == _resolve_parent_fks(p.view, e, rc)
      c == upsert_all_children(f, committed, e, rc, ts, child_types(e), children)
  IN c.view

(***************************************************************************)
(* The raw lists and the stores the data-level specifications start from.  *)
(***************************************************************************)
\* raw 'id' values of the API records; "" is an empty identifier
Ids == {"", "a", "b"}

\* the field that tells the records of a list apart (its value is the
\* position of the record in the list)
TagField(e) == IF e \in {"properties", "tasks"} THEN "name" ELSE "note"

\* raw API records handed to a load
ApiRecords(e) ==
  IF e = "properties"
  THEN [id : Ids, status : {"active"}, name : {""},
        notes : {NoneV, DictV([about |-> "new"])},
        photos : {ListV(<<>>),
                  ListV(<<DictV([id |-> "p"]),
                          DictV([id |-> "p", caption |-> "new"])>>)}]
  ELSE [id : Ids, status : {"confirmed"}, note : {""},
        property_id : {"a", "x"},
        guests : {ListV(<<>>), ListV(<<DictV([name |-> "g", email |-> "e"])>>)}]

\* raw API records handed to transform alone: also inactive properties and
\* child lists with an element that is not an object
ApiRecordsWide(e) ==
  IF e = "properties"
  THEN [id : Ids, status : {"active", "inactive"}, name : {""},
        notes : {DictV([about |-> "new"])},
        photos : {ListV(<<>>), ListV(<<DictV([id |-> "p"])>>),
                  ListV(<<StrV("x")>>)}]
  ELSE [id : Ids, status : {"confirmed"}, note : {""},
        property_id : {"a"},
        guests : {ListV(<<>>), ListV(<<DictV([name |-> "g", email |-> "e"])>>),
                  ListV(<<StrV("x")>>)}]

\* raw API records with an unusual payload: a null identifier, a child
\* array that is absent, null, a string, or a list of two objects, and
\* properties that are inactive or without status
ApiRecordsOdd(e) ==
  LET plain == IF e = "properties"
               THEN [id : {"a", None}, status : {"active"}, name : {""},
                     notes : {DictV([about |-> "new"])}]
               ELSE [id : {"a", None}, status : {"confirmed"}, note : {""},
                     property_id : {"a"}]
      field == IF e = "properties" THEN "photos" ELSE "guests"
      arrays == {NoneV, StrV("x"),
                 IF e = "properties"
                 THEN ListV(<<DictV([id |-> "p"]), DictV([id |-> "q"])>>)
                 ELSE ListV(<<DictV([name |-> "g"]), DictV([name |-> "h"])>>)}
      with(r, a) == [k \in DOMAIN r \cup {field} |->
                       IF k = field THEN a ELSE r[k]]
      statusless == IF e = "properties"
                    THEN {[id |-> "b", name |-> "",
                           photos |-> ListV(<<DictV([id |-> "p"])>>)],
                          [id |-> "b", status |-> "inactive", name |-> "",
                           photos |-> ListV(<<DictV([id |-> "p"])>>)]}
                    ELSE {}
  IN plain \cup {with(r, a) : r \in plain, a \in arrays} \cup statusless

\* raw tasks handed to transform alone: supplies and costs embedded
ApiTasksWide ==
  [id : {"a"}, name : {""}, home_id : {"a"},
   supplies : {ListV(<<>>), ListV(<<DictV([id |-> "s", name |-> "soap"])>>)},
   costs : {ListV(<<>>),
            ListV(<<DictV([id |-> "c", cost |-> "25",
                           type_cost |-> DictV([id |-> "1", code |-> "SUP",
                                                name |-> "Supplies"])])>>)}]

\* raw tasks handed to a load: a tag the tenant has, an element without
\* identifier, a tag the tenant does not have
ApiTasks ==
  [id : Ids, name : {""}, home_id : {"a"},
   task_tags : {ListV(<<>>),
                ListV(<<DictV([id |-> "t"]), DictV(<<>>)>>),
                ListV(<<DictV([id |-> "z"]), DictV([id |-> "t"])>>)}]

lists(S, n) == UNION {[1..k -> S] : k \in 0..n}

tagged(s, e) == [i \in DOMAIN s |-> [s[i] EXCEPT ![TagField(e)] = ToString(i)]]

\* the characters of the raw strings of numeric fields
Chars == {"0", "5", " ", "U"}

\* raw values of a numeric field: null, numbers, strings, lists, objects
NumericValues ==
  {NoneV, NumV(0), NumV(5), ListV(<<>>), ListV(<<NumV(5)>>), DictV(<<>>),
   DictV([amount |-> NumV(5)])}
    \cup {TextV(cs) : cs \in lists(Chars, MaxText)}

\* raw records with a value in one numeric field
ApiRecordsNumeric(e) ==
  IF e = "properties"
  THEN [id : {"a"}, status : {"active"}, name : {""}, latitude : NumericValues]
         \cup [id : {"a"}, status : {"active"}, name : {""},
                company_id : NumericValues]
  ELSE [id : {"a"}, name : {""}, home_id : {"a"}, rate_paid : NumericValues]

\* records of earlier runs
OldProperty ==
  [id |-> "a", status |-> "active", name |-> "old",
   notes |-> DictV([about |-> "old"]),
   photos |-> ListV(<<DictV([id |-> "p", caption |-> "old"])>>)]

OldReservation ==
  [id |-> "a", status |-> "confirmed", note |-> "old", property_id |-> "a",
   guests |-> ListV(<<DictV([name |-> "g", email |-> "e"])>>)]

\* earlier runs (tenant, entity, raw list) whose loads were committed
EarlierRuns ==
  LET other == [rc |-> REGIONS[2], e |-> "properties", raw |-> <<OldProperty>>]
      prop == [rc |-> REGIONS[1], e |-> "properties", raw |-> <<OldProperty>>]
      res == [rc |-> REGIONS[1], e |-> "reservations", raw |-> <<OldReservation>>]
  IN {<<>>, <<other>>, <<other, prop>>, <<res>>, <<other, prop, res>>}

RECURSIVE after_runs(_, _)
after_runs(committed, runs) ==
  IF runs = <<>> THEN committed
  ELSE LET r == Head(runs)
           out == transform(r.e, r.rc, 0, r.raw)
       IN after_runs(load(committed, r.e, r.rc, 0, out.parents, out.children),
                     Tail(runs))

SeedStores == {after_runs(EmptyStore, h) : h \in EarlierRuns}

\* records of earlier runs of tags and tasks
OldTag(id) == [id |-> id, name |-> "old"]

OldTask ==
  [id |-> "a", name |-> "old", home_id |-> "a",
   task_tags |-> ListV(<<DictV([id |-> "t"])>>)]

\* earlier runs before a load of tasks: the other tenant holds the tags "t"
\* and "z", the property "a" and a task of it; this tenant the tag "t" and,
\* in the last store, the property "a" and a task of it
EarlierTaskRuns ==
  LET other_tags == [rc |-> REGIONS[2], e |-> "tags",
                     raw |-> <<OldTag("z"), OldTag("t")>>]
      other_prop == [rc |-> REGIONS[2], e |-> "properties",
                     raw |-> <<OldProperty>>]
      other_task == [rc |-> REGIONS[2], e |-> "tasks", raw |-> <<OldTask>>]
      tags == [rc |-> REGIONS[1], e |-> "tags", raw |-> <<OldTag("t")>>]
      prop == [rc |-> REGIONS[1], e |-> "properties", raw |-> <<OldProperty>>]
      task == [rc |-> REGIONS[1], e |-> "tasks", raw |-> <<OldTask>>]
  IN {<<>>, <<other_tags>>, <<other_tags, tags>>,
      <<other_tags, other_prop, other_task, tags>>,
      <<other_tags, other_prop, other_task, prop, tags, task>>}

TaskSeedStores == {after_runs(EmptyStore, h) : h \in EarlierTaskRuns}

(***************************************************************************)
(* run_etl                                                                 *)
(***************************************************************************)
Selections(all) == {all} \cup {<<all[i]>> : i \in 1..Len(all)}

\* send_success_summary without its early return for failed = 0
send_success_summary_Always(f) == 1

\* alerting.py send_success_summary: the number of summary alerts emitted
send_success_summary(f) == IF f = 0 THEN 0 ELSE 1

InitDriver ==
  /\ regions \in Selections(get_all_regions)
  /\ entities \in Selections(get_all_entities)
  /\ ri = 1
  /\ ei = 1
  /\ current = 0
  /\ success = 0
  /\ failed = 0
  /\ returned = -1
  /\ run_failures = 0
  /\ calls = <<>>
  /\ failure_alerts = 0
  /\ summary_alerts = 0

InitFlags ==
  /\ caught = "none"
  /\ raised = "none"
  /\ fail_arg = "none"
  /\ pair_failed = FALSE
  /\ fetched = "none"
  /\ started = FALSE
  /\ finalized = 0
  /\ pair_alerts = 0
  /\ success_flag = "none"
  /\ load_committed = FALSE
  /\ tracker_conn = "ok"
  /\ sync_status = "none"
  /\ error_message = "none"

InitRun ==
  /\ pc = "loop"
  /\ reg = "none"
  /\ ent = "none"
  /\ exc = "none"
  /\ faulted = FALSE
  /\ conn = "IDLE"
  /\ InitFlags

\* the batch driver and the control flow carry no records
InitData ==
  /\ raw = <<>>
  /\ parent_records = <<>>
  /\ child_records = <<>>
  /\ transformed = 0
  /\ duplicates_found = 0
  /\ errors = 0
  /\ store = EmptyStore
  /\ db = EmptyStore
  /\ pre_store = EmptyStore
  /\ now = 0

\* no request was issued yet
IdleExtract ==
  /\ api_format = "dict"
  /\ api_records = <<>>
  /\ api_tasks = <<>>
  /\ properties = <<>>
  /\ token_valid = TRUE
  /\ page = 1
  /\ pidx = 1
  /\ cidx = 1
  /\ all_records = <<>>
  /\ child_records_list = <<>>
  /\ requests_log = <<>>
  /\ api_calls = 0
  /\ tracker_api_calls = 0
  /\ faults = 0

\* SyncTracker.start lines 101-118 and BreezewayETL.__init__: the row is
\* 'running' and every counter is 0
IdleStats ==
  /\ records_inserted = 0
  /\ records_updated = 0
  /\ sync_record = [sync_status |-> "running", records_processed |-> 0,
                    records_new |-> 0, records_updated |-> 0]
  /\ tracker_stats = [new |-> 0, updated |-> 0]

\* scripts/fast_tasks_sync.py does not run
\* no SyncTracker of SpecTracker exists (the tracker of a run of Spec is in
\* tracker_conn, sync_status and sync_record)
IdleTracker ==
  /\ etl_sync_log = {}
  /\ trackers = <<>>
  /\ clock = 0
  /\ completed_at = <<>>

\* no POST has been received
IdleWebhook ==
  /\ wh_pc = "idle"
  /\ webhook_type = "none"
  /\ payload = <<>>
  /\ event_id = 0
  /\ update_error = None
  /\ webhook_events = <<>>
  /\ response = [status_code |-> 0, status |-> "none"]

IdleFast ==
  /\ main_pc = "idle"
  /\ futures = <<>>
  /\ props = <<>>
  /\ fetches = <<>>
  /\ all_tasks = <<>>
  /\ fast_records = "empty"
  /\ writing = {}
  /\ writes = <<>>

Init ==
  InitDriver /\ InitRun /\ InitData /\ IdleExtract /\ IdleStats /\ IdleFast
    /\ IdleWebhook
    /\ IdleTracker

\* the fields run_single_etl and BreezewayETL.__init__ set for a new pair
NewRun ==
  /\ exc' = "none"
  /\ caught' = "none"
  /\ raised' = "none"
  /\ fail_arg' = "none"
  /\ faulted' = FALSE
  /\ pair_failed' = FALSE
  /\ fetched' = "none"
  /\ started' = FALSE
  /\ finalized' = 0
  /\ pair_alerts' = 0
  /\ success_flag' = "none"
  /\ load_committed' = FALSE
  /\ records_inserted' = 0
  /\ records_updated' = 0
  /\ tracker_stats' = [new |-> 0, updated |-> 0]

\* run_etl lines 112-117: the loops pick the next pair and call run_single_etl
RunEtlLoop ==
  /\ pc = "loop"
  /\ ri <= Len(regions)
  /\ current' = current + 1
  /\ reg' = regions[ri]
  /\ ent' = entities[ei]
  /\ calls' = Append(calls, <<regions[ri], entities[ei]>>)
  /\ pc' = "init"
  /\ NewRun
  /\ UNCHANGED <<sync_record, extractVars, fastVars, webhookVars, trackerVars, dataVars, regions, entities, ri, ei, success, failed, returned,
                 run_failures, failure_alerts, summary_alerts, tracker_conn,
                 sync_status, error_message, conn>>

\* the etl_sync_log row of a pair as earlier batches may have left it
PriorStatus == {"none", "success", "failed", "running"}

\* the numbers of rows a load may insert and update (SpecLoad has the rows)
Counts == 0 .. 1

\* the counters of that row: start() zeroes them, fail() is reached with the
\* tracker's counters still at zero, complete() writes those of the run
PriorRecords(status) ==
  {[sync_status |-> status, records_processed |-> 0, records_new |-> n,
    records_updated |-> 0] : n \in IF status = "success" THEN Counts ELSE {0}}

\* run_single_etl line 58, BreezewayETL.__init__: TokenManager and SyncTracker
\* each open a connection of their own; db_conn is only stored
Construct ==
  /\ pc = "init"
  /\ sync_status' \in PriorStatus
  /\ sync_record' \in PriorRecords(sync_status')
  /\ error_message' = IF sync_status' = "failed" THEN "earlier" ELSE "none"
  /\ tracker_conn' = "ok"
  /\ \/ /\ exc' = "init"
        /\ faulted' = TRUE
        /\ pair_failed' = TRUE
        /\ run_failures' = run_failures + 1
        /\ pc' = "except_single"
     \/ /\ pc' = "start"
        /\ UNCHANGED <<exc, faulted, pair_failed, run_failures>>
  /\ UNCHANGED <<records_inserted, records_updated, tracker_stats, extractVars, fastVars, webhookVars, trackerVars, dataVars, regions, entities, ri, ei, current, success, failed, returned,
                 calls, failure_alerts, summary_alerts, reg, ent, caught,
                 raised, fail_arg, fetched, started, finalized, pair_alerts,
                 success_flag, load_committed, conn>>

\* a step of run() raises: control passes to the except clause of run()
Raise(e, env) ==
  /\ exc' = e
  /\ faulted' = (faulted \/ env)
  /\ pc' = "except_run"

\* SyncTracker.start (run line 888): upsert the row to 'running' and commit
TrackerStart ==
  /\ pc = "start"
  /\ started' = TRUE
  /\ \/ /\ Raise("start", TRUE)
        /\ tracker_conn' = "error"
        /\ UNCHANGED <<sync_status, sync_record, error_message>>
     \/ /\ sync_status' = "running"
        /\ sync_record' = [sync_status |-> "running", records_processed |-> 0,
                           records_new |-> 0, records_updated |-> 0]
        /\ error_message' = "none"
        /\ pc' = "extract"
        /\ UNCHANGED <<exc, faulted, tracker_conn>>
  /\ UNCHANGED <<records_inserted, records_updated, tracker_stats, extractVars, fastVars, webhookVars, trackerVars, dataVars, driverVars, reg, ent, caught, raised, fail_arg, pair_failed,
                 fetched, finalized, pair_alerts, success_flag,
                 load_committed, conn>>

\* extract returned: the run goes on to transform whatever was returned
Extracted_AlwaysTransform ==
  /\ fetched' \in {"empty", "some"}
  /\ pc' = "transform"
  /\ UNCHANGED <<exc, faulted>>

\* extract returned: an empty list ends the run through complete()
Extracted ==
  /\ fetched' \in {"empty", "some"}
  /\ pc' = IF fetched' = "empty" THEN "complete" ELSE "transform"
  /\ UNCHANGED <<exc, faulted>>

\* extract, _extract_standard: the token, then the pages over HTTP; the shared
\* connection is not used
ExtractStandard ==
  /\ pc = "extract"
  /\ ~requires_property_filter(ent)
  /\ \/ Raise("extract", TRUE) /\ UNCHANGED fetched
     \/ Extracted
  /\ UNCHANGED <<statsVars, extractVars, fastVars, webhookVars, trackerVars, dataVars, driverVars, reg, ent, caught, raised, fail_arg, pair_failed,
                 started, finalized, pair_alerts, success_flag,
                 load_committed, tracker_conn, sync_status, error_message,
                 conn>>

\* extract, _extract_tasks: SELECT the tenant's properties on the shared
\* connection (no commit, no rollback), then one request per property; a
\* failed request is skipped
ExtractTasks ==
  /\ pc = "extract"
  /\ requires_property_filter(ent)
  /\ \/ /\ conn = "INERROR"
        /\ Raise("InFailedSqlTransaction", FALSE)
        /\ UNCHANGED <<conn, fetched>>
     \/ /\ conn # "INERROR"
        /\ Raise("extract", TRUE)
        /\ conn' = "INERROR"
        /\ UNCHANGED fetched
     \/ /\ conn # "INERROR"
        /\ conn' = "INTRANS"
        /\ \/ Raise("extract", TRUE) /\ UNCHANGED fetched
           \/ Extracted
  /\ UNCHANGED <<statsVars, extractVars, fastVars, webhookVars, trackerVars, dataVars, driverVars, reg, ent, caught, raised, fail_arg, pair_failed,
                 started, finalized, pair_alerts, success_flag,
                 load_committed, tracker_conn, sync_status, error_message>>

\* transform (run line 899): errors of single records are caught inside; the
\* status filter and the bookkeeping around the loop are not guarded
Transform ==
  /\ pc = "transform"
  /\ \/ Raise("transform", TRUE)
     \/ pc' = "fetch" /\ UNCHANGED <<exc, faulted>>
  /\ UNCHANGED <<statsVars, extractVars, fastVars, webhookVars, trackerVars, dataVars, driverVars, reg, ent, caught, raised, fail_arg, pair_failed,
                 fetched, started, finalized, pair_alerts, success_flag,
                 load_committed, tracker_conn, sync_status, error_message,
                 conn>>

\* fetch_api_children (run line 902): failures per parent are caught inside
FetchApiChildren ==
  /\ pc = "fetch"
  /\ \/ Raise("fetch", TRUE)
     \/ pc' = "load" /\ UNCHANGED <<exc, faulted>>
  /\ UNCHANGED <<statsVars, extractVars, fastVars, webhookVars, trackerVars, dataVars, driverVars, reg, ent, caught, raised, fail_arg, pair_failed,
                 fetched, started, finalized, pair_alerts, success_flag,
                 load_committed, tracker_conn, sync_status, error_message,
                 conn>>

\* load lines 602-604: the rows _upsert_parents inserted and updated are
\* added to the run's counters before the commit
upsert_counted ==
  \E i \in Counts, u \in Counts :
    /\ records_inserted' = records_inserted + i
    /\ records_updated' = records_updated + u

\* load that swallows its exception: the run goes on to complete()
Load_Swallowed ==
  /\ pc = "load"
  /\ \/ /\ conn' = rollback(conn)
        /\ pc' = "complete"
        /\ upsert_counted \/ UNCHANGED <<records_inserted, records_updated>>
        /\ UNCHANGED <<load_committed, exc, faulted>>
     \/ /\ conn # "INERROR"
        /\ conn' = "IDLE"
        /\ upsert_counted
        /\ load_committed' = TRUE
        /\ pc' = "complete"
        /\ UNCHANGED <<exc, faulted>>
  /\ UNCHANGED <<sync_record, tracker_stats, extractVars, fastVars,
                 webhookVars, trackerVars, dataVars, driverVars, reg, ent, caught, raised,
                 fail_arg, pair_failed, fetched, started, finalized,
                 pair_alerts, success_flag, tracker_conn, sync_status,
                 error_message>>

\* load (run line 905) on the shared connection: BEGIN, the upserts, COMMIT;
\* any exception rolls the connection back and is raised again
Load ==
  /\ pc = "load"
  /\ \/ /\ conn = "INERROR"
        /\ Raise("InFailedSqlTransaction", FALSE)
        /\ conn' = rollback(conn)
        /\ UNCHANGED <<load_committed, records_inserted, records_updated>>
     \/ /\ conn # "INERROR"
        /\ Raise("load", TRUE)
        /\ conn' = rollback(conn)
        /\ upsert_counted \/ UNCHANGED <<records_inserted, records_updated>>
        /\ UNCHANGED load_committed
     \/ /\ conn # "INERROR"
        /\ conn' = "IDLE"
        /\ upsert_counted
        /\ load_committed' = TRUE
        /\ pc' = "complete"
        /\ UNCHANGED <<exc, faulted>>
  /\ UNCHANGED <<sync_record, tracker_stats, extractVars, fastVars, webhookVars, trackerVars, dataVars, driverVars, reg, ent, caught, raised, fail_arg, pair_failed,
                 fetched, started, finalized, pair_alerts, success_flag,
                 tracker_conn, sync_status, error_message>>

\* run lines 907-914 (and line 895 for an empty extract): the counters, then
\* SyncTracker.complete: UPDATE the row to 'success' and commit
TrackerComplete ==
  /\ pc = "complete"
  /\ tracker_stats' = IF fetched = "empty" THEN tracker_stats
                      ELSE [new |-> records_inserted,
                            updated |-> records_updated]
  /\ \/ /\ tracker_conn = "error"
        /\ Raise("InFailedSqlTransaction", FALSE)
        /\ UNCHANGED <<tracker_conn, sync_status, sync_record, finalized>>
     \/ /\ tracker_conn = "ok"
        /\ Raise("complete", TRUE)
        /\ tracker_conn' = "error"
        /\ UNCHANGED <<sync_status, sync_record, finalized>>
     \/ /\ tracker_conn = "ok"
        /\ sync_status' = IF sync_status = "none" THEN "none" ELSE "success"
        /\ sync_record' = IF sync_status = "none" THEN sync_record
                          ELSE [sync_record EXCEPT
                                  !.sync_status = "success",
                                  !.records_new = tracker_stats'.new,
                                  !.records_updated = tracker_stats'.updated]
        /\ finalized' = finalized + 1
        /\ pc' = "return"
        /\ UNCHANGED <<exc, faulted, tracker_conn>>
  /\ UNCHANGED <<records_inserted, records_updated, extractVars, fastVars, webhookVars, trackerVars, dataVars, driverVars, reg, ent, caught, raised, fail_arg, pair_failed,
                 fetched, started, pair_alerts, success_flag, load_committed,
                 error_message, conn>>

\* run lines 929-932: tracker.fail(str(e)), then raise.  SyncTracker.fail:
\* UPDATE the row to 'failed' with the message and commit; when fail() itself
\* raises, its exception is the one that leaves run()
RunExcept ==
  /\ pc = "except_run"
  /\ caught' = exc
  /\ fail_arg' = exc
  /\ \/ /\ tracker_conn = "error"
        /\ exc' = "InFailedSqlTransaction"
        /\ UNCHANGED <<tracker_conn, sync_status, sync_record, error_message,
                       finalized, faulted>>
     \/ /\ tracker_conn = "ok"
        /\ exc' = "fail"
        /\ faulted' = TRUE
        /\ tracker_conn' = "error"
        /\ UNCHANGED <<sync_status, sync_record, error_message, finalized>>
     \/ /\ tracker_conn = "ok"
        /\ sync_status' = IF sync_status = "none" THEN "none" ELSE "failed"
        /\ sync_record' = IF sync_status = "none" THEN sync_record
                          ELSE [sync_record EXCEPT
                                  !.sync_status = "failed",
                                  !.records_new = tracker_stats.new,
                                  !.records_updated = tracker_stats.updated]
        /\ error_message' = IF sync_status = "none" THEN error_message ELSE exc
        /\ finalized' = finalized + 1
        /\ UNCHANGED <<exc, faulted, tracker_conn>>
  /\ raised' = exc'
  /\ pair_failed' = TRUE
  /\ run_failures' = run_failures + 1
  /\ pc' = "except_single"
  /\ UNCHANGED <<records_inserted, records_updated, tracker_stats, extractVars, fastVars, webhookVars, trackerVars, dataVars, regions, entities, ri, ei, current, success, failed, returned,
                 calls, failure_alerts, summary_alerts, reg, ent, fetched,
                 started, pair_alerts, success_flag, load_committed, conn>>

\* run_single_etl lines 61-65: run() returned
SingleReturn ==
  /\ pc = "return"
  /\ success_flag' = "True"
  /\ pc' = "tally"
  /\ UNCHANGED <<statsVars, extractVars, fastVars, webhookVars, trackerVars, dataVars, driverVars, reg, ent, exc, caught, raised, fail_arg, faulted,
                 pair_failed, fetched, started, finalized, pair_alerts,
                 load_committed, tracker_conn, sync_status, error_message,
                 conn>>

\* run_single_etl lines 67-83: except Exception: one failure alert, return False
SingleExcept ==
  /\ pc = "except_single"
  /\ failure_alerts' = failure_alerts + 1
  /\ pair_alerts' = pair_alerts + 1
  /\ success_flag' = "False"
  /\ exc' = "none"
  /\ pc' = "tally"
  /\ UNCHANGED <<statsVars, extractVars, fastVars, webhookVars, trackerVars, dataVars, regions, entities, ri, ei, current, success, failed, returned,
                 run_failures, calls, summary_alerts, reg, ent, caught, raised,
                 fail_arg, faulted, pair_failed, fetched, started, finalized,
                 load_committed, tracker_conn, sync_status, error_message,
                 conn>>

\* Tally with a failed job ending the batch (the exception not contained)
Tally_StopOnFailure ==
  /\ pc = "tally"
  /\ success' = IF success_flag = "True" THEN success + 1 ELSE success
  /\ failed' = IF success_flag = "True" THEN failed ELSE failed + 1
  /\ ei' = IF ei < Len(entities) THEN ei + 1 ELSE 1
  /\ ri' = IF success_flag # "True" THEN Len(regions) + 1
           ELSE IF ei < Len(entities) THEN ri ELSE ri + 1
  /\ pc' = "loop"
  /\ UNCHANGED <<statsVars, extractVars, fastVars, webhookVars, trackerVars, dataVars, regions, entities, current, returned, run_failures, calls,
                 failure_alerts, summary_alerts, reg, ent, exc, caught, raised,
                 fail_arg, faulted, pair_failed, fetched, started, finalized,
                 pair_alerts, success_flag, load_committed, tracker_conn,
                 sync_status, error_message, conn>>

\* run_etl lines 119-124: count the result; the loops move on
Tally ==
  /\ pc = "tally"
  /\ success' = IF success_flag = "True" THEN success + 1 ELSE success
  /\ failed' = IF success_flag = "True" THEN failed ELSE failed + 1
  /\ ei' = IF ei < Len(entities) THEN ei + 1 ELSE 1
  /\ ri' = IF ei < Len(entities) THEN ri ELSE ri + 1
  /\ pc' = "loop"
  /\ UNCHANGED <<statsVars, extractVars, fastVars, webhookVars, trackerVars, dataVars, regions, entities, current, returned, run_failures, calls,
                 failure_alerts, summary_alerts, reg, ent, exc, caught, raised,
                 fail_arg, faulted, pair_failed, fetched, started, finalized,
                 pair_alerts, success_flag, load_committed, tracker_conn,
                 sync_status, error_message, conn>>

\* run_etl lines 126-147: after the loops, the summary alert and the result
Summary ==
  /\ pc = "loop"
  /\ ri > Len(regions)
  /\ summary_alerts' = summary_alerts + send_success_summary(failed)
  /\ returned' = failed
  /\ pc' = "done"
  /\ UNCHANGED <<statsVars, extractVars, fastVars, webhookVars, trackerVars, dataVars, regions, entities, ri, ei, current, success, failed,
                 run_failures, calls, failure_alerts, runVars_but_pc>>

Next ==
  \/ RunEtlLoop
  \/ Construct
  \/ TrackerStart
  \/ ExtractStandard
  \/ ExtractTasks
  \/ Transform
  \/ FetchApiChildren
  \/ Load
  \/ TrackerComplete
  \/ RunExcept
  \/ SingleReturn
  \/ SingleExcept
  \/ Tally
  \/ Summary

Spec == Init /\ [][Next]_vars

(***************************************************************************)
(* transform and load over concrete records (SpecTransform, SpecLoad).     *)
(***************************************************************************)
\* the batch driver at rest
IdleDriver ==
  /\ regions = <<>>
  /\ entities = <<>>
  /\ ri = 1
  /\ ei = 1
  /\ current = 0
  /\ success = 0
  /\ failed = 0
  /\ returned = -1
  /\ run_failures = 0
  /\ calls = <<>>
  /\ failure_alerts = 0
  /\ summary_alerts = 0

InitTransform ==
  /\ IdleDriver
  /\ IdleExtract
  /\ IdleStats
  /\ IdleFast
  /\ IdleWebhook
  /\ IdleTracker
  /\ InitFlags
  /\ pc = "t_records"
  /\ reg = REGIONS[1]
  /\ exc = "none"
  /\ faulted = FALSE
  /\ conn = "IDLE"
  /\ \/ /\ ent \in DataEntities
        /\ raw \in {tagged(s, ent) : s \in lists(ApiRecordsWide(ent), MaxRaw)
                                         \cup lists(ApiRecordsOdd(ent), MaxRaw)}
     \/ /\ ent = "tasks"
        /\ raw \in {tagged(s, ent) : s \in lists(ApiTasksWide, MaxRaw)}
     \/ /\ ent \in {"properties", "tasks"}
        /\ raw \in {<<r>> : r \in ApiRecordsNumeric(ent)}
  /\ parent_records = <<>>
  /\ child_records = <<>>
  /\ transformed = 0
  /\ duplicates_found = 0
  /\ errors = 0
  /\ store = EmptyStore
  /\ db = EmptyStore
  /\ pre_store = EmptyStore
  /\ now = 1

InitLoad ==
  /\ IdleDriver
  /\ IdleExtract
  /\ IdleStats
  /\ IdleFast
  /\ IdleWebhook
  /\ IdleTracker
  /\ InitFlags
  /\ pc = "t_records"
  /\ reg = REGIONS[1]
  /\ ent \in DataEntities
  /\ exc = "none"
  /\ faulted = FALSE
  /\ conn \in ConnStatus
  /\ raw \in {tagged(s, ent) : s \in lists(ApiRecords(ent), MaxBatch)}
  /\ parent_records = <<>>
  /\ child_records = <<>>
  /\ transformed = 0
  /\ duplicates_found = 0
  /\ errors = 0
  /\ store \in SeedStores
  /\ db = store
  /\ pre_store = store
  /\ now = 1

\* a load of tasks (the children fetch_api_children adds are left out)
InitLoadTasks ==
  /\ IdleDriver
  /\ IdleExtract
  /\ IdleStats
  /\ IdleFast
  /\ IdleWebhook
  /\ IdleTracker
  /\ InitFlags
  /\ pc = "t_records"
  /\ reg = REGIONS[1]
  /\ ent = "tasks"
  /\ exc = "none"
  /\ faulted = FALSE
  /\ conn \in ConnStatus
  /\ raw \in {tagged(s, ent) : s \in lists(ApiTasks, MaxBatch)}
  /\ parent_records = <<>>
  /\ child_records = <<>>
  /\ transformed = 0
  /\ duplicates_found = 0
  /\ errors = 0
  /\ store \in TaskSeedStores
  /\ db = store
  /\ pre_store = store
  /\ now = 1

\* run line 899: parent_records, child_records = self.transform(raw_data)
TransformRecords ==
  /\ pc = "t_records"
  /\ LET out == transform(ent, reg, now, raw)
     IN /\ parent_records' = out.parents
        /\ child_records' = out.children
        /\ transformed' = out.transformed
        /\ duplicates_found' = out.duplicates
        /\ errors' = out.errors
  /\ pc' = "t_done"
  /\ UNCHANGED <<statsVars, extractVars, fastVars, webhookVars, trackerVars, driverVars, flagVars, reg, ent, exc, faulted, conn, raw,
                 store, db, pre_store, now>>

\* a statement of load fails: the transaction is aborted, control passes to
\* the except clause of load
LoadRaise(e, env) ==
  /\ exc' = e
  /\ faulted' = (faulted \/ env)
  /\ conn' = "INERROR"
  /\ pc' = "ld_except"

\* load line 599: BEGIN (fetch_api_children, run line 902, leaves the child
\* records of properties and reservations as they are)
LoadBegin ==
  /\ pc = "t_done"
  /\ \/ conn = "INERROR" /\ LoadRaise("InFailedSqlTransaction", FALSE)
     \/ conn # "INERROR" /\ LoadRaise("BEGIN", TRUE)
     \/ /\ conn # "INERROR"
        /\ conn' = "INTRANS"
        /\ pc' = "ld_parents"
        /\ UNCHANGED <<exc, faulted>>
  /\ UNCHANGED <<statsVars, extractVars, fastVars, webhookVars, trackerVars, driverVars, flagVars, dataVars, reg, ent>>

\* load line 602: _upsert_parents
LoadUpsertParents ==
  /\ pc = "ld_parents"
  /\ LET res == _upsert_parents(db, ent, now, parent_records)
     IN \/ /\ LoadRaise(IF res.ok THEN "upsert_parents" ELSE "SqlError", res.ok)
           /\ UNCHANGED <<db, records_inserted, records_updated>>
        \/ /\ res.ok
           /\ db' = res.view
           /\ records_inserted' = records_inserted + res.inserted
           /\ records_updated' = records_updated + res.updated
           /\ pc' = "ld_fks"
           /\ UNCHANGED <<exc, faulted, conn>>
  /\ UNCHANGED <<sync_record, tracker_stats, extractVars, fastVars, webhookVars, trackerVars, driverVars, flagVars, reg, ent, raw, parent_records,
                 child_records, transformed, duplicates_found, errors, store,
                 pre_store, now>>

\* load line 607: _resolve_parent_fks
LoadResolveParentFks ==
  /\ pc = "ld_fks"
  /\ \/ /\ LoadRaise("resolve_parent_fks", TRUE)
        /\ UNCHANGED db
     \/ /\ db' = _resolve_parent_fks(db, ent, reg)
        /\ pc' = "ld_children"
        /\ UNCHANGED <<exc, faulted, conn>>
  /\ UNCHANGED <<statsVars, extractVars, fastVars, webhookVars, trackerVars, driverVars, flagVars, reg, ent, raw, parent_records,
                 child_records, transformed, duplicates_found, errors, store,
                 pre_store, now>>

\* load lines 610-612: _upsert_children for every child table with records
LoadUpsertChildren ==
  /\ pc = "ld_children"
  /\ LET res == upsert_all_children(db, store, ent, reg, now, child_types(ent),
                                    child_records)
     IN \/ /\ LoadRaise(IF res.ok THEN "upsert_children" ELSE "SqlError", res.ok)
           /\ UNCHANGED db
        \/ /\ res.ok
           /\ db' = res.view
           /\ pc' = "ld_commit"
           /\ UNCHANGED <<exc, faulted, conn>>
  /\ UNCHANGED <<statsVars, extractVars, fastVars, webhookVars, trackerVars, driverVars, flagVars, reg, ent, raw, parent_records,
                 child_records, transformed, duplicates_found, errors, store,
                 pre_store, now>>

\* load line 615: COMMIT
LoadCommit ==
  /\ pc = "ld_commit"
  /\ \/ /\ LoadRaise("COMMIT", TRUE)
        /\ UNCHANGED store
     \/ /\ store' = db
        /\ conn' = "IDLE"
        /\ pc' = "loaded"
        /\ UNCHANGED <<exc, faulted>>
  /\ UNCHANGED <<statsVars, extractVars, fastVars, webhookVars, trackerVars, driverVars, flagVars, reg, ent, raw, parent_records,
                 child_records, transformed, duplicates_found, errors, db,
                 pre_store, now>>

\* load lines 619-623: except: rollback, then raise
LoadExcept ==
  /\ pc = "ld_except"
  /\ db' = rolled_back(db, store)
  /\ conn' = rollback(conn)
  /\ pc' = "load_failed"
  /\ UNCHANGED <<statsVars, extractVars, fastVars, webhookVars, trackerVars, driverVars, flagVars, reg, ent, exc, faulted, raw,
                 parent_records, child_records, transformed, duplicates_found,
                 errors, store, pre_store, now>>

\* run lines 907-914: the tracker's counters, then SyncTracker.complete:
\* UPDATE the row to 'success' with the counters and commit
LoadTrackerComplete ==
  /\ pc = "loaded"
  /\ tracker_stats' = [new |-> records_inserted, updated |-> records_updated]
  /\ \/ /\ exc' = "complete"
        /\ faulted' = TRUE
        /\ pc' = "complete_failed"
        /\ UNCHANGED sync_record
     \/ /\ sync_record' = [sync_status |-> "success",
                           records_processed |-> Len(parent_records),
                           records_new |-> records_inserted,
                           records_updated |-> records_updated]
        /\ pc' = "completed"
        /\ UNCHANGED <<exc, faulted>>
  /\ UNCHANGED <<records_inserted, records_updated, extractVars, fastVars, webhookVars, trackerVars, driverVars,
                 flagVars, dataVars, reg, ent, conn>>

NextTransform == TransformRecords

SpecTransform == InitTransform /\ [][NextTransform]_vars

NextLoad ==
  \/ TransformRecords
  \/ LoadBegin
  \/ LoadUpsertParents
  \/ LoadResolveParentFks
  \/ LoadUpsertChildren
  \/ LoadCommit
  \/ LoadExcept
  \/ LoadTrackerComplete

SpecLoad == InitLoad /\ [][NextLoad]_vars

SpecLoadTasks == InitLoadTasks /\ [][NextLoad]_vars

(***************************************************************************)
(* The Breezeway API as the extractor sees it, and extract and             *)
(* fetch_api_children request by request (SpecExtract).                    *)
(***************************************************************************)
\* API_CONFIG['page_size'] and the limit of the tasks URL (100 in the
\* source), scaled down
PageSize == 2

\* most records the source holds for a standard endpoint
MaxSource == 5

\* most properties persisted for the tenant
MaxProps == 2

\* the last page requested from a source that holds MaxSource records: the
\* page after its last page with records
MaxPage == (MaxSource + PageSize - 1) \div PageSize + 1

\* most requests and statements of one run that fail
MaxFaults == 2

\* API_CONFIG['max_retries']
max_retries == 3

\* status of a request that got no response in API_CONFIG['timeout'] seconds
NoResponse == 0

Statuses == {200, 400, 429, 500}

\* Retry-After header of a 429 response (None: the header is absent)
RetryAfterHeaders == {None, "2"}

\* what a request is answered with
Responses ==
  [status : (Statuses \ {429}) \cup {NoResponse}, retry_after : {None}]
    \cup [status : {429}, retry_after : RetryAfterHeaders]

\* int(s) of a decimal string
int(s) == CASE s = "1" -> 1 [] s = "2" -> 2 [] s = "3" -> 3

\* auth_manager.py: int(response.headers.get('Retry-After', 60))
retry_after(header) == IF header = None THEN 60 ELSE int(header)

\* one HTTP request (its URL, the id and the page the URL carries), its answer
\* and the seconds slept before it was sent
request(url, id, pg, resp, waited) ==
  [url |-> url, id |-> id, page |-> pg, status |-> resp.status,
   retry_after |-> resp.retry_after, waited |-> waited]

\* raise_for_status raising for server errors only
raise_for_status_ServerOnly(status) == 500 <= status /\ status < 600

\* response.raise_for_status(): HTTPError for a 4xx or 5xx status
raise_for_status(status) == 400 <= status /\ status < 600

\* requests.get(...) followed by response.raise_for_status(): the
\* RequestException raised, "none" when the response is returned
request_exception(resp) ==
  IF resp.status = NoResponse THEN "Timeout"
  ELSE IF raise_for_status(resp.status) THEN "HTTPError"
  ELSE "none"

\* an except clause that lets the HTTPError of raise_for_status pass
tasks_except_catches_TimeoutOnly(e) == e = "Timeout"

\* _extract_tasks line 224: except requests.exceptions.RequestException
tasks_except_catches(e) == e \in {"Timeout", "HTTPError"}

\* an except clause for the exceptions of requests only
children_except_catches_RequestOnly(e) == e \in {"Timeout", "HTTPError"}

\* fetch_api_children line 565: except Exception
children_except_catches(e) == TRUE

\* a source that ignores the page parameter and serves the first page
api_page_Repeating(records, limit, p) ==
  SubSeq(records, 1, Min(limit, Len(records)))

\* page p of a list served limit records a page
api_page(records, limit, p) ==
  SubSeq(records, (p - 1) * limit + 1, Min(p * limit, Len(records)))

\* response.json(): a paginated endpoint answers {"results": [page p]}, a
\* direct-list endpoint answers the bare array
response_json(format, records, limit, p) ==
  IF format = "list" THEN ListV(records)
  ELSE DictV([results |-> api_page(records, limit, p)])

\* the results of a body read from its 'results' key only
results_of_DictOnly(data) ==
  IF data.t = "dict" THEN get(data.v, "results", <<>>) ELSE <<>>

\* _extract_standard lines 157-162
results_of(data) ==
  IF data.t = "list" THEN data.v
  ELSE IF data.t = "dict" THEN get(data.v, "results", <<>>)
  ELSE <<>>

\* _refresh_token / _generate_new_tokens: the POST, and after a 429 the sleep
\* of Retry-After seconds and the second POST
post(url, first, second) ==
  IF first.status = 429
  THEN <<request(url, None, 0, first, 0),
         request(url, None, 0, second, retry_after(first.retry_after))>>
  ELSE <<request(url, None, 0, first, 0)>>

PostRuns(url) == {post(url, first, second) : first \in Responses, second \in Responses}

\* response.status_code == 200 of the last POST (a POST without response
\* raised)
post_ok(posts) == posts[Len(posts)].status = 200

\* get_valid_token: the requests it issues and whether it returns a token.
\* The SELECT of the credentials may fail; a cached token is returned without
\* a request; otherwise _refresh_token, and _generate_new_tokens when there
\* is no refresh token or the refresh failed.
get_valid_token(valid) ==
  {[log |-> <<>>, ok |-> FALSE]} \cup
  IF valid
  THEN {[log |-> <<>>, ok |-> TRUE]}
  ELSE {[log |-> r, ok |-> TRUE] : r \in {x \in PostRuns("/refresh") : post_ok(x)}}
       \cup {[log |-> r \o g, ok |-> post_ok(g)] :
               r \in {x \in PostRuns("/refresh") : ~post_ok(x)}, g \in PostRuns("/")}
       \cup {[log |-> g, ok |-> post_ok(g)] : g \in PostRuns("/")}

\* the requests and statements of a get_valid_token call that failed
run_faults(t) ==
  Cardinality({i \in DOMAIN t.log : t.log[i].status # 200})
    + (IF t.log = <<>> /\ ~t.ok THEN 1 ELSE 0)

\* ENTITY_CONFIGS[e]['endpoint']
endpoint(e) ==
  CASE e = "properties" -> "/property"
    [] e = "reservations" -> "/reservation"
    [] e = "tasks" -> "/task"

\* the child tables of e with requires_api_call, in declaration order
api_child_tables(e) == IF e = "tasks" THEN <<"comments", "requirements">> ELSE <<>>

\* child_tables[c]['endpoint_template']
endpoint_template(c) ==
  IF c = "comments" THEN "/task/{task_id}/comments"
  ELSE "/task/{task_id}/requirements"

\* child_tables[c]['parent_id_field']
parent_id_field(c) == "task_id"

\* the entities the extraction is modelled for
ExtractEntities == {"properties", "tasks"}

HomeIds == <<"h1", "h2", "h3", "h4">>

Homes == {HomeIds[i] : i \in 1..Min(MaxProps, Len(HomeIds))}

\* a row of properties as _extract_tasks selects it
property_row(i) ==
  [id |-> i, property_id |-> HomeIds[i],
   reference_external_property_id |-> IF i = 1 THEN None ELSE "ref"]

\* the rows of the tenant, in the order of their ids
RECURSIVE rows_of(_, _)
rows_of(S, i) ==
  IF i > Min(MaxProps, Len(HomeIds)) THEN <<>>
  ELSE (IF i \in S THEN <<property_row(i)>> ELSE <<>>) \o rows_of(S, i + 1)

\* the records a standard endpoint holds
source_records(n) == [i \in 1..n |-> [id |-> i]]

\* the tasks the source holds for a property
source_tasks(h, n) == [k \in 1..n |-> [id |-> <<h, k>>, home_id |-> h]]

\* none, one, or one more than a page holds
TaskCounts == {0, 1, PageSize + 1}

TaskIds == <<"t1", "t2", "t3", "t4">>

\* parents handed to fetch_api_children: transformed tasks, some of them
\* without task_id
TaskParentLists ==
  UNION {{[i \in 1..k |-> [task_id |-> IF i \in S THEN TaskIds[i] ELSE ""]] :
            S \in SUBSET (1..k)} : k \in 0..Min(MaxBatch, Len(TaskIds))}

\* what the API holds for a parent of an API child table
api_children_of(c, parent_id) == <<[id |-> "c1"]>>

\* fetch_api_children lines 522-563: the transformed child
transformed_child(c, rc, child, parent_id) ==
  IF c = "comments"
  THEN [region_code |-> rc, comment_id |-> str(get(child, "id", "")),
        _parent_api_id |-> str(parent_id)]
  ELSE [region_code |-> rc, requirement_id |-> get(child, "id", None),
        _parent_api_id |-> str(parent_id)]

\* fetch_api_children lines 511-520
api_children_in(data) ==
  IF data.t = "list" THEN data.v
  ELSE IF data.t = "dict" THEN get(data.v, "data", <<>>)
  ELSE <<>>

\* what extract and fetch_api_children leave alone
extractFixed ==
  <<fastVars, webhookVars, trackerVars, statsVars, driverVars, flagVars, reg, ent, faulted, transformed, duplicates_found,
    errors, store, db, pre_store, now, api_format, api_records, api_tasks,
    properties>>

InitExtractCommon ==
  /\ IdleDriver
  /\ IdleStats
  /\ IdleFast
  /\ IdleWebhook
  /\ IdleTracker
  /\ InitFlags
  /\ reg = REGIONS[1]
  /\ exc = "none"
  /\ faulted = FALSE
  /\ raw = <<>>
  /\ child_records = <<>>
  /\ transformed = 0
  /\ duplicates_found = 0
  /\ errors = 0
  /\ store = EmptyStore
  /\ db = EmptyStore
  /\ pre_store = EmptyStore
  /\ now = 1
  /\ page = 1
  /\ pidx = 1
  /\ cidx = 1
  /\ all_records = <<>>
  /\ child_records_list = <<>>
  /\ requests_log = <<>>
  /\ api_calls = 0
  /\ tracker_api_calls = 0
  /\ faults = 0

\* extract of an entity without requires_property_filter
InitStandard ==
  /\ pc = "x_token"
  /\ token_valid \in BOOLEAN
  /\ ent \in {e \in ExtractEntities : ~requires_property_filter(e)}
  /\ conn = "IDLE"
  /\ parent_records = <<>>
  /\ api_format \in {"dict", "list"}
  /\ api_records \in {source_records(n) : n \in 0..MaxSource}
  /\ api_tasks = <<>>
  /\ properties = <<>>

\* extract of tasks
InitFanOut ==
  /\ pc = "x_token"
  /\ token_valid \in BOOLEAN
  /\ ent \in {e \in ExtractEntities : requires_property_filter(e)}
  /\ conn \in {"IDLE", "INERROR"}
  /\ parent_records = <<>>
  /\ api_format = "dict"
  /\ api_records = <<>>
  /\ \E S \in SUBSET (1..Min(MaxProps, Len(HomeIds))) :
       /\ properties = rows_of(S, 1)
       /\ api_tasks \in {[h \in Homes |-> source_tasks(h, n[h])] :
                           n \in {m \in [Homes -> TaskCounts] :
                                    \A i \in 1..Min(MaxProps, Len(HomeIds)) :
                                       i \notin S => m[HomeIds[i]] = 0}}

\* fetch_api_children of the parents of a batch
InitChildren ==
  /\ pc = "f_begin"
  /\ token_valid = TRUE
  /\ ent \in ExtractEntities
  /\ conn = "IDLE"
  /\ parent_records \in IF api_child_tables(ent) = <<>> THEN {<<>>}
                        ELSE TaskParentLists
  /\ api_format \in {"dict", "list"}
  /\ api_records = <<>>
  /\ api_tasks = <<>>
  /\ properties = <<>>

InitExtract ==
  /\ InitExtractCommon
  /\ InitStandard \/ InitFanOut \/ InitChildren

\* an exception leaves extract
ExtractRaise(e) ==
  /\ exc' = e
  /\ pc' = "x_raised"

\* self.token_mgr.get_valid_token()
GetValidToken(at, to) ==
  /\ pc = at
  /\ \E t \in get_valid_token(token_valid) :
       /\ faults + run_faults(t) <= MaxFaults
       /\ requests_log' = requests_log \o t.log
       /\ faults' = faults + run_faults(t)
       /\ token_valid' = (token_valid \/ t.ok)
       /\ IF t.ok THEN pc' = to /\ UNCHANGED exc
                  ELSE ExtractRaise("TokenError")

\* extract line 88
ExtractGetToken ==
  /\ GetValidToken("x_token",
                   IF requires_property_filter(ent) THEN "x_select" ELSE "x_page")
  /\ UNCHANGED <<extractFixed, conn, raw, parent_records, child_records, page,
                 pidx, cidx, all_records, child_records_list, api_calls,
                 tracker_api_calls>>

\* _extract_standard lines 138-178: one pass of the while loop, and the
\* return of extract when the loop is left
ExtractStandardPage ==
  /\ pc = "x_page"
  /\ page <= MaxPage
  /\ \E resp \in Responses :
       /\ resp.status = 200 \/ faults < MaxFaults
       /\ requests_log' = Append(requests_log, request(endpoint(ent), None, page, resp, 0))
       /\ IF request_exception(resp) # "none"
          THEN /\ ExtractRaise(request_exception(resp))
               /\ faults' = faults + 1
               /\ UNCHANGED <<api_calls, tracker_api_calls, all_records, page, raw>>
          ELSE LET data == response_json(api_format, api_records, PageSize, page)
                   results == results_of(data)
                   more == results # <<>> /\ data.t # "list"
               IN /\ api_calls' = api_calls + 1
                  /\ tracker_api_calls' = tracker_api_calls + 1
                  /\ all_records' = all_records \o results
                  /\ page' = IF more THEN page + 1 ELSE page
                  /\ pc' = IF more THEN "x_page" ELSE "x_done"
                  /\ raw' = IF more THEN raw ELSE all_records'
                  /\ UNCHANGED <<exc, faults>>
  /\ UNCHANGED <<extractFixed, conn, parent_records, child_records, token_valid,
                 pidx, cidx, child_records_list>>

\* _extract_tasks lines 188-194: the SELECT of the tenant's properties on the
\* shared connection
ExtractTasksSelect ==
  /\ pc = "x_select"
  /\ \/ /\ conn = "INERROR"
        /\ ExtractRaise("InFailedSqlTransaction")
        /\ UNCHANGED <<conn, faults>>
     \/ /\ conn # "INERROR"
        /\ faults < MaxFaults
        /\ ExtractRaise("SqlError")
        /\ conn' = "INERROR"
        /\ faults' = faults + 1
     \/ /\ conn # "INERROR"
        /\ conn' = "INTRANS"
        /\ pc' = "x_tasks_token"
        /\ UNCHANGED <<exc, faults>>
  /\ UNCHANGED <<extractFixed, raw, parent_records, child_records, token_valid,
                 page, pidx, cidx, all_records, child_records_list,
                 requests_log, api_calls, tracker_api_calls>>

\* _extract_tasks line 198
ExtractTasksGetToken ==
  /\ GetValidToken("x_tasks_token", "x_tasks")
  /\ UNCHANGED <<extractFixed, conn, raw, parent_records, child_records, page,
                 pidx, cidx, all_records, child_records_list, api_calls,
                 tracker_api_calls>>

\* _extract_tasks lines 206-226: one pass of the for loop
ExtractTasksProperty ==
  /\ pc = "x_tasks"
  /\ pidx <= Len(properties)
  /\ LET home_id == properties[pidx].property_id
     IN \E resp \in Responses :
          /\ resp.status = 200 \/ faults < MaxFaults
          /\ requests_log' = Append(requests_log, request("/task", home_id, 1, resp, 0))
          /\ IF request_exception(resp) # "none"
             THEN /\ faults' = faults + 1
                  /\ IF tasks_except_catches(request_exception(resp))
                     THEN UNCHANGED <<pc, exc>>
                     ELSE ExtractRaise(request_exception(resp))
                  /\ UNCHANGED <<api_calls, tracker_api_calls, all_records>>
             ELSE LET data == response_json("dict", api_tasks[home_id], PageSize, 1)
                  IN /\ api_calls' = api_calls + 1
                     /\ tracker_api_calls' = tracker_api_calls + 1
                     /\ all_records' = all_records \o get(data.v, "results", <<>>)
                     /\ UNCHANGED <<pc, exc, faults>>
  /\ pidx' = pidx + 1
  /\ UNCHANGED <<extractFixed, conn, raw, parent_records,
                 child_records, token_valid, page, cidx, child_records_list>>

\* _extract_tasks line 228 and extract lines 107-110
ExtractTasksReturn ==
  /\ pc = "x_tasks"
  /\ pidx > Len(properties)
  /\ raw' = all_records
  /\ pc' = "x_done"
  /\ UNCHANGED <<extractFixed, exc, conn, parent_records, child_records,
                 token_valid, page, pidx, cidx, all_records,
                 child_records_list, requests_log, api_calls,
                 tracker_api_calls, faults>>

\* fetch_api_children lines 461-481: without API child tables the child
\* records are returned as they are
FetchApiChildrenBegin ==
  /\ pc = "f_begin"
  /\ pc' = IF api_child_tables(ent) = <<>> THEN "f_done" ELSE "f_parent"
  /\ cidx' = 1
  /\ pidx' = 1
  /\ child_records_list' = <<>>
  /\ UNCHANGED <<extractFixed, exc, conn, raw, parent_records, child_records,
                 token_valid, page, all_records, requests_log, api_calls,
                 tracker_api_calls, faults>>

\* fetch_api_children lines 483-566: one pass of the loop over the parents
FetchApiChildrenParent ==
  /\ pc = "f_parent"
  /\ pidx <= Len(parent_records)
  /\ LET child_name == api_child_tables(ent)[cidx]
         parent_id == get(parent_records[pidx], parent_id_field(child_name), None)
     IN IF ~truthy(parent_id)
        THEN UNCHANGED <<child_records_list, requests_log, api_calls,
                         tracker_api_calls, faults, token_valid, pc, exc>>
        ELSE \E t \in get_valid_token(token_valid), resp \in Responses :
               /\ faults + run_faults(t) <= MaxFaults
               /\ token_valid' = (token_valid \/ t.ok)
               /\ IF ~t.ok
                  THEN /\ requests_log' = requests_log \o t.log
                       /\ faults' = faults + run_faults(t)
                       /\ IF children_except_catches("TokenError")
                          THEN UNCHANGED <<pc, exc>>
                          ELSE ExtractRaise("TokenError")
                       /\ UNCHANGED <<child_records_list, api_calls, tracker_api_calls>>
                  ELSE /\ resp.status = 200 \/ faults + run_faults(t) < MaxFaults
                       /\ requests_log' =
                            Append(requests_log \o t.log,
                                   request(endpoint_template(child_name),
                                           parent_id, 0, resp, 0))
                       /\ IF request_exception(resp) # "none"
                          THEN /\ faults' = faults + run_faults(t) + 1
                               /\ IF children_except_catches(request_exception(resp))
                                  THEN UNCHANGED <<pc, exc>>
                                  ELSE ExtractRaise(request_exception(resp))
                               /\ UNCHANGED <<child_records_list, api_calls,
                                              tracker_api_calls>>
                          ELSE LET held == api_children_of(child_name, parent_id)
                                   data == IF api_format = "list" THEN ListV(held)
                                           ELSE DictV([data |-> held])
                                   api_children == api_children_in(data)
                               IN /\ faults' = faults + run_faults(t)
                                  /\ UNCHANGED <<pc, exc>>
                                  /\ api_calls' = api_calls + 1
                                  /\ tracker_api_calls' = tracker_api_calls + 1
                                  /\ child_records_list' =
                                       child_records_list \o
                                       [i \in DOMAIN api_children |->
                                          transformed_child(child_name, reg,
                                                            api_children[i], parent_id)]
  /\ pidx' = pidx + 1
  /\ UNCHANGED <<extractFixed, conn, raw, parent_records,
                 child_records, page, cidx, all_records>>

\* fetch_api_children lines 568-577: the children of a table are added to
\* child_records, and the next table is fetched
FetchApiChildrenTable ==
  /\ pc = "f_parent"
  /\ pidx > Len(parent_records)
  /\ LET child_name == api_child_tables(ent)[cidx]
     IN child_records' =
          [c \in DOMAIN child_records \cup {child_name} |->
             IF c = child_name
             THEN get(child_records, c, <<>>) \o child_records_list
             ELSE child_records[c]]
  /\ IF cidx < Len(api_child_tables(ent))
     THEN /\ cidx' = cidx + 1
          /\ pc' = "f_parent"
     ELSE /\ pc' = "f_done"
          /\ UNCHANGED cidx
  /\ pidx' = 1
  /\ child_records_list' = <<>>
  /\ UNCHANGED <<extractFixed, exc, conn, raw, parent_records, token_valid,
                 page, all_records, requests_log, api_calls,
                 tracker_api_calls, faults>>

NextExtract ==
  \/ ExtractGetToken
  \/ ExtractStandardPage
  \/ ExtractTasksSelect
  \/ ExtractTasksGetToken
  \/ ExtractTasksProperty
  \/ ExtractTasksReturn
  \/ FetchApiChildrenBegin
  \/ FetchApiChildrenParent
  \/ FetchApiChildrenTable

SpecExtract == InitExtract /\ [][NextExtract]_vars

(***************************************************************************)
(* scripts/fast_tasks_sync.py: main, one fetch_region per region on a pool *)
(* of threads, one fetch_tasks_for_property per property on a pool of the  *)
(* region, then load and resolve_fks on the main thread (SpecFast).  The   *)
(* threads of a pool are interchangeable: a pool is the number of calls it *)
(* runs.  The tasks are abstracted to "empty"/"some".                      *)
(***************************************************************************)
\* how many regions of REGIONS the script runs over (8 in the source)
NumFastRegions == 5

\* the most properties the SELECT of get_properties returns
MaxFastProps == 9

\* main line 193: ThreadPoolExecutor(max_workers=4)
max_workers == 4

\* MAX_WORKERS, the pool of fetch_region (line 81)
MAX_WORKERS == 8

FastRegions == 1..NumFastRegions

\* the full pages the source serves for one property: it holds at most
\* PageSize + 1 tasks for a property (TaskCounts), limit = PageSize a page
FullPages == (PageSize + 1) \div PageSize

\* the pages a fetch_tasks_for_property can be at
FastPages == 1..(FullPages + 1)

\* the calls a pool runs
pool_load(by_page) ==
  LET RECURSIVE sum(_)
      sum(p) == IF p = 0 THEN 0 ELSE by_page[p] + sum(p - 1)
  IN sum(FullPages + 1)

\* the regions whose fetch_region runs on a thread of the pool of main
running_regions(fs) == {r \in DOMAIN fs : fs[r] = "fetching"}

\* ThreadPoolExecutor: a queued call starts when fewer than max_workers
\* calls run
pool_has_idle_thread(running, size) == running < size

\* the with block left as soon as one future was yielded
extraction_joined_AnyYielded(fs) == \E r \in DOMAIN fs : fs[r] = "yielded"

\* main lines 193-202: as_completed has yielded every future and the with
\* block is left (shutdown(wait=True)) when every call of the pool has ended
extraction_joined(fs) == \A r \in DOMAIN fs : fs[r] = "yielded"

\* the threads that have work in flight for the extraction
extraction_workers(fs, fe) ==
  Cardinality(running_regions(fs))
    + Cardinality({r \in DOMAIN fe : pool_load(fe[r]) > 0})

InitFastWith(counts) ==
  /\ IdleDriver
  /\ IdleExtract
  /\ IdleStats
  /\ InitFlags
  /\ pc = "fast"
  /\ reg = REGIONS[1]
  /\ ent = "tasks"
  /\ exc = "none"
  /\ faulted = FALSE
  /\ conn = "IDLE"
  /\ raw = <<>>
  /\ parent_records = <<>>
  /\ child_records = <<>>
  /\ transformed = 0
  /\ duplicates_found = 0
  /\ errors = 0
  /\ store = EmptyStore
  /\ db = EmptyStore
  /\ pre_store = EmptyStore
  /\ now = 1
  /\ IdleWebhook
  /\ IdleTracker
  /\ main_pc = "submit"
  /\ futures = <<>>
  /\ \E n \in counts :
        props = [r \in FastRegions |-> IF r = 1 THEN n ELSE 0]
  /\ fetches = [r \in FastRegions |-> [p \in FastPages |-> 0]]
  /\ all_tasks = [r \in FastRegions |-> "empty"]
  /\ fast_records = "empty"
  /\ writing = {}
  /\ writes = <<>>

\* the first region has no property or more than a pool has threads, the
\* other regions have none
InitFast == InitFastWith({0, MaxFastProps})

\* main line 194: executor.submit(fetch_region, r) for every region
MainSubmit ==
  /\ main_pc = "submit"
  /\ futures' = [r \in FastRegions |-> "queued"]
  /\ main_pc' = "collect"
  /\ UNCHANGED <<baselineVars, webhookVars, trackerVars, props, fetches, all_tasks, fast_records,
                 writing, writes>>

\* a thread of the pool of main takes the first queued fetch_region;
\* fetch_region lines 71-82: get_properties (a SELECT) and get_valid_token;
\* either may raise, which ends the call with an exception; otherwise the
\* fetches of the properties are submitted to the pool of the region
RegionStart ==
  /\ \E r \in DOMAIN futures :
       /\ futures[r] = "queued"
       /\ \A q \in DOMAIN futures : q < r => futures[q] # "queued"
       /\ pool_has_idle_thread(Cardinality(running_regions(futures)), max_workers)
       /\ \/ futures' = [futures EXCEPT ![r] = "raised"]
          \/ futures' = [futures EXCEPT ![r] = "fetching"]
  /\ UNCHANGED <<baselineVars, webhookVars, trackerVars, main_pc, props, fetches, all_tasks,
                 fast_records, writing, writes>>

\* a thread of the pool of the region takes a queued
\* fetch_tasks_for_property: page = 1
FetchStart ==
  /\ \E r \in DOMAIN futures :
       /\ futures[r] = "fetching"
       /\ props[r] > 0
       /\ pool_has_idle_thread(pool_load(fetches[r]), MAX_WORKERS)
       /\ props' = [props EXCEPT ![r] = @ - 1]
       /\ fetches' = [fetches EXCEPT ![r][1] = @ + 1]
  /\ UNCHANGED <<baselineVars, webhookVars, trackerVars, main_pc, futures, all_tasks, fast_records,
                 writing, writes>>

\* fetch_tasks_for_property lines 49-64: one pass of the while loop.  The
\* loop is left on status 422, on an exception, on an empty batch and on a
\* batch shorter than the limit; a full batch is followed by the next page.
\* The source serves at most FullPages full pages for a property.
FetchPage ==
  /\ \E r \in DOMAIN fetches, p \in FastPages :
       /\ fetches[r][p] > 0
       /\ \/ /\ fetches' = [fetches EXCEPT ![r][p] = @ - 1]
             /\ UNCHANGED all_tasks
          \/ /\ fetches' = [fetches EXCEPT ![r][p] = @ - 1]
             /\ all_tasks' = [all_tasks EXCEPT ![r] = "some"]
          \/ /\ p <= FullPages
             /\ fetches' = [fetches EXCEPT ![r][p] = @ - 1, ![r][p + 1] = @ + 1]
             /\ all_tasks' = [all_tasks EXCEPT ![r] = "some"]
  /\ UNCHANGED <<baselineVars, webhookVars, trackerVars, main_pc, futures, props, fast_records,
                 writing, writes>>

\* fetch_region lines 83-87: every fetch has returned, the with block is
\* left and fetch_region returns
RegionReturn ==
  /\ \E r \in DOMAIN futures :
       /\ futures[r] = "fetching"
       /\ props[r] = 0
       /\ pool_load(fetches[r]) = 0
       /\ futures' = [futures EXCEPT ![r] = "returned"]
  /\ UNCHANGED <<baselineVars, webhookVars, trackerVars, main_pc, props, fetches, all_tasks,
                 fast_records, writing, writes>>

\* main lines 195-202: as_completed yields a future that has ended; its
\* tasks are transformed and added to all_records, its exception is logged
MainCollect ==
  /\ main_pc = "collect"
  /\ \E r \in DOMAIN futures :
       /\ futures[r] \in {"returned", "raised"}
       /\ fast_records' = IF futures[r] = "returned" /\ all_tasks[r] = "some"
                          THEN "some" ELSE fast_records
       /\ futures' = [futures EXCEPT ![r] = "yielded"]
  /\ UNCHANGED <<baselineVars, webhookVars, trackerVars, main_pc, props, fetches, all_tasks, writing,
                 writes>>

\* main line 205, load lines 124-158: without records load returns at once;
\* otherwise execute_values starts the upsert
MainLoad ==
  /\ main_pc = "collect"
  /\ extraction_joined(futures)
  /\ IF fast_records = "empty"
     THEN /\ main_pc' = "resolve_fks"
          /\ UNCHANGED <<writing, writes>>
     ELSE /\ main_pc' = "load"
          /\ writing' = writing \cup {"main"}
          /\ writes' = Append(writes,
                              [by |-> "main", statement |-> "upsert",
                               workers |-> extraction_workers(futures, fetches)])
  /\ UNCHANGED <<baselineVars, webhookVars, trackerVars, futures, props, fetches, all_tasks,
                 fast_records>>

\* load lines 158-162: the upsert ends and is committed, or it raises and
\* the exception ends main
MainLoadEnd ==
  /\ main_pc = "load"
  /\ writing' = writing \ {"main"}
  /\ main_pc' \in {"resolve_fks", "raised"}
  /\ UNCHANGED <<baselineVars, webhookVars, trackerVars, futures, props, fetches, all_tasks,
                 fast_records, writes>>

\* main line 208, resolve_fks lines 171-179: the UPDATE starts
MainResolveFks ==
  /\ main_pc = "resolve_fks"
  /\ main_pc' = "resolving"
  /\ writing' = writing \cup {"main"}
  /\ writes' = Append(writes,
                      [by |-> "main", statement |-> "resolve_fks",
                       workers |-> extraction_workers(futures, fetches)])
  /\ UNCHANGED <<baselineVars, webhookVars, trackerVars, futures, props, fetches, all_tasks,
                 fast_records>>

\* resolve_fks lines 181-185: the UPDATE ends and is committed, or it raises
MainResolveFksEnd ==
  /\ main_pc = "resolving"
  /\ writing' = writing \ {"main"}
  /\ main_pc' \in {"done", "raised"}
  /\ UNCHANGED <<baselineVars, webhookVars, trackerVars, futures, props, fetches, all_tasks,
                 fast_records, writes>>

NextFast ==
  \/ MainSubmit
  \/ RegionStart
  \/ FetchStart
  \/ FetchPage
  \/ RegionReturn
  \/ MainCollect
  \/ MainLoad
  \/ MainLoadEnd
  \/ MainResolveFks
  \/ MainResolveFksEnd

SpecFast == InitFast /\ [][NextFast]_vars

(***************************************************************************)
(* The webhook receiver (SpecWebhook): webhook/app.py and                  *)
(* webhook/handlers.py.  One POST is served at a time; every function of   *)
(* handlers.py opens a connection of its own, and connecting or executing  *)
(* may fail.  The rows of properties and tasks are those of `store`.       *)
(***************************************************************************)
\* how many rows webhook_events holds at most
MaxEvents == 2

\* webhook/config.py COMPANY_TO_REGION.get(company_id, "unknown")
get_region_by_company_id(company_id) ==
  IF company_id = 8558 THEN "nashville"
  ELSE IF company_id = 8561 THEN "austin"
  ELSE "unknown"

\* the region of a payload's company_id (get_region_by_company_id(None) is
\* "unknown")
payload_region(p) ==
  IF "company_id" \in DOMAIN p THEN get_region_by_company_id(p.company_id)
  ELSE "unknown"

\* str(payload.get(field, payload.get("id", "")))
payload_entity_id(p, field) == str(get(p, field, get(p, "id", "")))

\* the bodies Breezeway (or anyone) posts: not JSON, a JSON array, or an object
\* with or without event, company_id, identifier, status and task
Bodies(route) ==
  LET events == {<<>>, [event |-> "test_webhook_event"]}
      companies == {<<>>, [company_id |-> 8558], [company_id |-> 1]}
      ids == IF route = "property-status"
             THEN {<<>>, [property_id |-> "a"]}
             ELSE {<<>>, [task_id |-> "a"]}
      details == IF route = "property-status"
                 THEN {<<>>, [status |-> "clean"]}
                 ELSE {<<>>, [task |-> NoneV]}
  IN {[t |-> "invalid"], ListV(<<>>)}
       \cup {DictV(e @@ c @@ i @@ d) :
               e \in events, c \in companies, i \in ids, d \in details}

\* the stores the receiver starts with: empty, or with property "a" and task
\* "a" of the first tenant
WebhookStores ==
  {after_runs(EmptyStore, h) :
     h \in {<<>>,
            <<[rc |-> REGIONS[1], e |-> "properties", raw |-> <<OldProperty>>],
              [rc |-> REGIONS[1], e |-> "tasks", raw |-> <<OldTask>>]>>}}

\* an except clause that catches the errors of the body only
webhook_except_catches_ValueErrorOnly(e) == e = "JSONDecodeError"

\* app.py lines 57, 80: except Exception
webhook_except_catches(e) == TRUE

\* app.py lines 54-63, 77-86: the result is returned with status 200; an
\* exception the except clause catches is answered with status 200 and
\* {"status": "error"}, any other leaves the handler (status 500)
WebhookRespond(status) ==
  /\ response' = [status_code |-> 200, status |-> status]
  /\ wh_pc' = "responded"

WebhookRaise(e) ==
  /\ response' = [status_code |-> IF webhook_except_catches(e) THEN 200 ELSE 500,
                  status |-> "error"]
  /\ wh_pc' = "responded"

webhookFixed == <<driverVars, runVars, extractVars, statsVars, fastVars,
                  trackerVars, raw,
                  parent_records, child_records, transformed, duplicates_found,
                  errors, db, pre_store, now>>

InitWebhook ==
  /\ IdleDriver
  /\ IdleExtract
  /\ IdleStats
  /\ IdleFast
  /\ IdleWebhook
  /\ IdleTracker
  /\ InitFlags
  /\ pc = "webhook"
  /\ reg = REGIONS[1]
  /\ ent = "properties"
  /\ exc = "none"
  /\ faulted = FALSE
  /\ conn = "IDLE"
  /\ raw = <<>>
  /\ parent_records = <<>>
  /\ child_records = <<>>
  /\ transformed = 0
  /\ duplicates_found = 0
  /\ errors = 0
  /\ store \in WebhookStores
  /\ db = EmptyStore
  /\ pre_store = EmptyStore
  /\ now = 1

\* webhook_property_status / webhook_task up to log_webhook_event:
\* request.json() raises on a body that is not JSON, payload.get raises on a
\* body that is not an object, a test event is answered at once
WebhookPost ==
  /\ pc = "webhook"
  /\ wh_pc \in {"idle", "responded"}
  /\ Len(webhook_events) < MaxEvents
  /\ \E route \in {"property-status", "task"} : \E body \in Bodies(route) :
       /\ webhook_type' = route
       /\ event_id' = 0
       /\ update_error' = None
       /\ IF body.t = "invalid"
          THEN WebhookRaise("JSONDecodeError") /\ payload' = <<>>
          ELSE IF body.t # "dict"
          THEN WebhookRaise("AttributeError") /\ payload' = <<>>
          ELSE IF get(body.v, "event", None) = "test_webhook_event"
          THEN WebhookRespond("ok") /\ payload' = body.v
          ELSE /\ payload' = body.v
               /\ wh_pc' = "log"
               /\ UNCHANGED response
  /\ UNCHANGED <<webhookFixed, store, webhook_events>>

\* log_webhook_event: the INSERT and its commit, or an exception of the
\* connection or the statement, which leaves process_*_event
LogWebhookEvent ==
  /\ wh_pc = "log"
  /\ \/ /\ WebhookRaise("OperationalError")
        /\ UNCHANGED <<webhook_events, event_id>>
     \/ /\ webhook_events' =
             Append(webhook_events,
                    [webhook_type |-> webhook_type,
                     region_code |-> IF "company_id" \in DOMAIN payload
                                     THEN payload_region(payload) ELSE None,
                     entity_id |->
                       payload_entity_id(payload,
                                         IF webhook_type = "property-status"
                                         THEN "property_id" ELSE "task_id"),
                     processed |-> FALSE,
                     error_message |-> None])
        /\ event_id' = Len(webhook_events) + 1
        /\ wh_pc' = "update"
        /\ UNCHANGED response
  /\ UNCHANGED <<webhookFixed, store, webhook_type, payload, update_error>>

\* update_property_from_webhook: returns early without identifier, region or
\* status; otherwise UPDATE properties SET property_status, synced_at,
\* updated_at WHERE property_id AND region_code
update_property_from_webhook(rows, p, ts) ==
  LET property_id == payload_entity_id(p, "property_id")
      region_code == payload_region(p)
      new_status == get(p, "status", None)
  IN IF ~truthy(property_id) \/ region_code = "unknown" \/ ~truthy(new_status)
     THEN [statement |-> FALSE, rows |-> rows]
     ELSE [statement |-> TRUE,
           rows |-> {IF r.property_id = property_id /\ r.region_code = region_code
                     THEN [r EXCEPT !.property_status = new_status,
                                    !.synced_at = ts, !.updated_at = ts]
                     ELSE r : r \in rows}]

\* update_task_from_webhook: returns early without identifier or region;
\* task_data.get raises when "task" is not an object; otherwise UPDATE tasks
\* SET synced_at, updated_at [, task_status, finished_at, started_at] WHERE
\* task_id AND region_code (the three optional columns are outside the
\* columns modelled)
update_task_from_webhook(rows, p, ts) ==
  LET task_id == payload_entity_id(p, "task_id")
      region_code == payload_region(p)
      task_data == get(p, "task", DictV(p))
  IN IF ~truthy(task_id) \/ region_code = "unknown"
     THEN [statement |-> FALSE, raises |-> FALSE, rows |-> rows]
     ELSE IF task_data.t # "dict"
     THEN [statement |-> FALSE, raises |-> TRUE, rows |-> rows]
     ELSE [statement |-> TRUE, raises |-> FALSE,
           rows |-> {IF r.task_id = task_id /\ r.region_code = region_code
                     THEN [r EXCEPT !.synced_at = ts, !.updated_at = ts]
                     ELSE r : r \in rows}]

\* process_*_event lines 112-117, 156-161: the update of the stored row; its
\* exception is kept as error_message
UpdateFromWebhook ==
  /\ wh_pc = "update"
  /\ IF webhook_type = "property-status"
     THEN LET u == update_property_from_webhook(store["properties"], payload, now)
          IN \/ /\ store' = [store EXCEPT !["properties"] = u.rows]
                /\ UNCHANGED update_error
             \/ /\ u.statement
                /\ update_error' = "OperationalError"
                /\ UNCHANGED store
     ELSE LET u == update_task_from_webhook(store["tasks"], payload, now)
          IN \/ /\ ~u.raises
                /\ store' = [store EXCEPT !["tasks"] = u.rows]
                /\ UNCHANGED update_error
             \/ /\ u.raises
                /\ update_error' = "AttributeError"
                /\ UNCHANGED store
             \/ /\ u.statement
                /\ update_error' = "OperationalError"
                /\ UNCHANGED store
  /\ wh_pc' = "mark"
  /\ UNCHANGED <<webhookFixed, webhook_type, payload, event_id, webhook_events,
                 response>>

\* mark_event_processed and the return of process_*_event: UPDATE
\* webhook_events SET processed = TRUE, error_message WHERE id = event_id, or
\* an exception of the connection or the statement
MarkEventProcessed ==
  /\ wh_pc = "mark"
  /\ \/ /\ WebhookRaise("OperationalError")
        /\ UNCHANGED webhook_events
     \/ /\ webhook_events' =
             [webhook_events EXCEPT ![event_id] =
                [@ EXCEPT !.processed = TRUE, !.error_message = update_error]]
        /\ WebhookRespond("ok")
  /\ UNCHANGED <<webhookFixed, store, webhook_type, payload, event_id,
                 update_error>>

NextWebhook ==
  \/ WebhookPost
  \/ LogWebhookEvent
  \/ UpdateFromWebhook
  \/ MarkEventProcessed

SpecWebhook == InitWebhook /\ [][NextWebhook]_vars

(***************************************************************************)
(* shared/sync_tracker.py: the rows of etl_sync_log over the runs of the   *)
(* pairs (SpecTracker).  Every SyncTracker of a run has a connection of    *)
(* its own and sends one statement per call, so CURRENT_TIMESTAMP, the     *)
(* start of the transaction, is the time of the call.                      *)
(***************************************************************************)
\* a timestamp column: NULL or a time
NullTs == <<>>
Ts(t) == <<t>>

\* the pairs whose runs are followed
TrackedPairs == {<<REGIONS[1], "properties">>, <<REGIONS[1], "tasks">>}

\* WHERE region_code = %s AND entity_type = %s
of_pair(row, pair) == row.region_code = pair[1] /\ row.entity_type = pair[2]

\* start that also stamps the row as successful
start_StampsSuccess(log, pair, ts) ==
  IF \E row \in log : of_pair(row, pair)
  THEN {IF of_pair(row, pair)
        THEN [row EXCEPT !.sync_started_at = Ts(ts),
                         !.sync_completed_at = NullTs,
                         !.sync_status = "running",
                         !.last_successful_sync_at = Ts(ts),
                         !.error_message = None]
        ELSE row : row \in log}
  ELSE log \cup {[region_code |-> pair[1], entity_type |-> pair[2],
                  sync_status |-> "running", sync_started_at |-> Ts(ts),
                  sync_completed_at |-> NullTs,
                  last_successful_sync_at |-> Ts(ts),
                  error_message |-> None]}

\* SyncTracker.start: INSERT ... ON CONFLICT (region_code, entity_type) DO
\* UPDATE; the columns the statement does not name keep their value, or get
\* NULL in a new row
start(log, pair, ts) ==
  IF \E row \in log : of_pair(row, pair)
  THEN {IF of_pair(row, pair)
        THEN [row EXCEPT !.sync_started_at = Ts(ts),
                         !.sync_completed_at = NullTs,
                         !.sync_status = "running",
                         !.error_message = None]
        ELSE row : row \in log}
  ELSE log \cup {[region_code |-> pair[1], entity_type |-> pair[2],
                  sync_status |-> "running", sync_started_at |-> Ts(ts),
                  sync_completed_at |-> NullTs,
                  last_successful_sync_at |-> NullTs,
                  error_message |-> None]}

\* SyncTracker.complete: UPDATE the rows of the pair
complete(log, pair, ts) ==
  {IF of_pair(row, pair)
   THEN [row EXCEPT !.sync_completed_at = Ts(ts),
                    !.sync_status = "success",
                    !.last_successful_sync_at = Ts(ts)]
   ELSE row : row \in log}

\* SyncTracker.fail: UPDATE the rows of the pair
fail(log, pair, ts, message) ==
  {IF of_pair(row, pair)
   THEN [row EXCEPT !.sync_completed_at = Ts(ts),
                    !.sync_status = "failed",
                    !.error_message = message]
   ELSE row : row \in log}

\* SyncTracker.get_last_sync_time: ORDER BY last_successful_sync_at DESC
\* LIMIT 1 over the rows of the pair where it IS NOT NULL; None if no row
get_last_sync_time(log, pair) ==
  LET times == {row.last_successful_sync_at[1] :
                  row \in {r \in log : /\ of_pair(r, pair)
                                       /\ r.last_successful_sync_at # NullTs}}
  IN IF times = {} THEN NullTs
     ELSE Ts(CHOOSE t \in times : \A u \in times : u <= t)

trackerFixed == <<baselineVars, fastVars, webhookVars>>

InitTracker ==
  /\ IdleDriver
  /\ IdleExtract
  /\ IdleStats
  /\ IdleFast
  /\ IdleWebhook
  /\ InitFlags
  /\ InitData
  /\ pc = "tracker"
  /\ reg = REGIONS[1]
  /\ ent = "properties"
  /\ exc = "none"
  /\ faulted = FALSE
  /\ conn = "IDLE"
  /\ etl_sync_log = {}
  /\ trackers = [pair \in TrackedPairs |-> [at |-> "none", conn |-> "ok"]]
  /\ clock = 0
  /\ completed_at = [pair \in TrackedPairs |-> NullTs]

\* a statement reaches the database: the clock has moved on
Tick ==
  /\ clock < MaxClock
  /\ clock' = clock + 1

\* BreezewayETL.__init__ line 61: the SyncTracker of a new run of the pair,
\* with a connection of its own
SyncTrackerNew(pair) ==
  /\ pc = "tracker"
  /\ trackers[pair].at \in {"none", "completed", "failed"}
  /\ trackers' = [trackers EXCEPT ![pair] = [at |-> "new", conn |-> "ok"]]
  /\ UNCHANGED <<trackerFixed, etl_sync_log, clock, completed_at>>

\* run line 888: tracker.start(); the statement or its commit may fail
SyncTrackerStart(pair) ==
  /\ pc = "tracker"
  /\ trackers[pair].at = "new"
  /\ Tick
  /\ \/ /\ etl_sync_log' = start(etl_sync_log, pair, clock')
        /\ trackers' = [trackers EXCEPT ![pair].at = "started"]
     \/ /\ trackers' = [trackers EXCEPT ![pair] =
                          [at |-> "raised", conn |-> "error"]]
        /\ UNCHANGED etl_sync_log
  /\ UNCHANGED <<trackerFixed, completed_at>>

\* a step of run() between start() and complete() raises
SyncRunRaises(pair) ==
  /\ pc = "tracker"
  /\ trackers[pair].at = "started"
  /\ trackers' = [trackers EXCEPT ![pair].at = "raised"]
  /\ UNCHANGED <<trackerFixed, etl_sync_log, clock, completed_at>>

\* run lines 895 and 914: tracker.complete()
SyncTrackerComplete(pair) ==
  /\ pc = "tracker"
  /\ trackers[pair].at = "started"
  /\ Tick
  /\ \/ /\ etl_sync_log' = complete(etl_sync_log, pair, clock')
        /\ completed_at' = [completed_at EXCEPT ![pair] = Ts(clock')]
        /\ trackers' = [trackers EXCEPT ![pair].at = "completed"]
     \/ /\ trackers' = [trackers EXCEPT ![pair] =
                          [at |-> "raised", conn |-> "error"]]
        /\ UNCHANGED <<etl_sync_log, completed_at>>
  /\ UNCHANGED trackerFixed

\* run line 930: tracker.fail(str(e)); on a connection whose transaction is
\* aborted the statement is refused
SyncTrackerFail(pair) ==
  /\ pc = "tracker"
  /\ trackers[pair].at = "raised"
  /\ Tick
  /\ \/ /\ trackers[pair].conn = "ok"
        /\ etl_sync_log' = fail(etl_sync_log, pair, clock', "error")
        /\ trackers' = [trackers EXCEPT ![pair].at = "failed"]
     \/ /\ trackers' = [trackers EXCEPT ![pair] =
                          [at |-> "failed", conn |-> "error"]]
        /\ UNCHANGED etl_sync_log
  /\ UNCHANGED <<trackerFixed, completed_at>>

NextTracker ==
  \E pair \in TrackedPairs :
     \/ SyncTrackerNew(pair)
     \/ SyncTrackerStart(pair)
     \/ SyncRunRaises(pair)
     \/ SyncTrackerComplete(pair)
     \/ SyncTrackerFail(pair)

SpecTracker == InitTracker /\ [][NextTracker]_vars

(***************************************************************************)
(* Termination (SpecTermination): a batch of runs, a standard extraction   *)
(* or the parallel variant with few properties, each taking its steps as   *)
(* long as it has one to take.  Every request ends with a response or a    *)
(* timeout (timeout=API_CONFIG['timeout'], timeout=30), so no step waits   *)
(* forever.                                                                *)
(***************************************************************************)
InitTermination ==
  \/ Init
  \/ InitExtractCommon /\ InitStandard
  \/ InitFastWith({0, 2})

NextTermination ==
  \/ Next
  \/ ExtractGetToken
  \/ ExtractStandardPage
  \/ NextFast

SpecTermination ==
  InitTermination /\ [][NextTermination]_vars /\ WF_vars(NextTermination)

(***************************************************************************)
(* Claims about the batch driver and the single-pair run (under Spec).     *)
(***************************************************************************)
\* the pairs of R x E in tenant-major order
Pairs(R, E) ==
  [k \in 1..(Len(R) * Len(E)) |->
     <<R[((k - 1) \div Len(E)) + 1], E[((k - 1) % Len(E)) + 1]>>]

C2_SiblingIsolation ==
  (pc = "tally" /\ success_flag = "False") => faulted

C5_FailThenReraise ==
  (pc = "except_single" /\ caught \notin {"none", "start"}) =>
     /\ fail_arg = caught
     /\ raised = caught

\* C6 (as claimed): a run that called start() ends with its record finalized
\* exactly once: 'success' if run() returned, 'failed' if it raised.
C6_FinalizedOnce ==
  (pc = "tally" /\ started) =>
     /\ finalized = 1
     /\ sync_status = (IF pair_failed THEN "failed" ELSE "success")

\* C15 (as claimed): when extract raises in standard mode the run is aborted:
\* the exception leaves run(), no record is transformed or loaded, and the
\* run is recorded as failed.
C15_StandardFailureAborts ==
  (pc = "tally" /\ caught = "extract" /\ ~requires_property_filter(ent)) =>
     /\ pair_failed
     /\ fetched = "none"
     /\ ~load_committed
     /\ sync_status = "failed"

\* C23: when extract returns no records the next step of the run is
\* tracker.complete(); transform, fetch_api_children and load are never
\* invoked, nothing is loaded, and when complete() returns the record is
\* 'success' and run() returns.
C23_EmptyExtractStops ==
  [][fetched' = "empty" =>
       /\ fetched # "empty" => pc' = "complete"
       /\ pc' \notin {"transform", "fetch", "load"}
       /\ ~load_committed'
       /\ pc' = "return" => sync_status' = "success"]_vars

\* C23 witness: a run whose extract returned no records has returned
C23_Witness ==
  /\ pc = "tally"
  /\ fetched = "empty"
  /\ success_flag = "True"
  /\ sync_status = "success"
  /\ ~load_committed

(***************************************************************************)
(* Claims about transform (under SpecTransform).                           *)
(***************************************************************************)
\* the positions of the raw records that pass the entity's status filter
PassingFilter ==
  {i \in 1..Len(raw) :
     truthy(transform_filter_status(ent)) =>
       get(raw[i], "status", None) = transform_filter_status(ent)}

\* the natural-key tuple the raw record at position i carries
RawKey(i) ==
  key_tuple(_transform_parent(ent, reg, now, raw[i]), natural_key(ent))

\* no two returned parents share a natural-key tuple; every returned parent is
\* the one transformed from the first record, among those at the positions
\* `among`, that carries its key; the duplicates counted are the transformed
\* parents minus the returned ones
DedupeKeepsFirst(among) ==
  pc = "t_done" =>
    /\ \A i, j \in 1..Len(parent_records) :
          i # j => key_tuple(parent_records[i], natural_key(ent))
                     # key_tuple(parent_records[j], natural_key(ent))
    /\ \A j \in 1..Len(parent_records) :
          LET same == {i \in among :
                         RawKey(i) = key_tuple(parent_records[j], natural_key(ent))}
          IN /\ same # {}
             /\ parent_records[j] =
                  _transform_parent(ent, reg, now,
                                    raw[CHOOSE i \in same : \A k \in same : i <= k])
    /\ duplicates_found = transformed - Len(parent_records)

\* C7 (as claimed): for every raw list the returned parents have distinct
\* natural keys, the record kept for a key is the one transformed from the
\* first raw record carrying that key, and the dropped duplicates number the
\* transformed parents minus the returned ones.
C7_DedupeFirstRaw == DedupeKeepsFirst(1..Len(raw))

\* C7 (amended): as C7, with "first" taken among the raw records that pass
\* the entity's status filter (the only ones transform turns into parents).
C7_DedupeFirstTransformed == DedupeKeepsFirst(PassingFilter)

\* C7 witness: three transformed records, the third a duplicate of the first
C7_Witness ==
  /\ pc = "t_done"
  /\ transformed = 3
  /\ duplicates_found = 1
  /\ RawKey(1) = RawKey(3)
  /\ RawKey(1) # RawKey(2)

\* the raw record at position i makes _transform_children raise
RecordRaises(i) ==
  \E cn \in DOMAIN child_tables(ent) :
     ~_transform_children(ent, reg, raw[i], cn).ok

\* C20 (as claimed): a record whose transformation raises is counted as one
\* error and skipped: neither its parent nor its children are in the output
\* of transform.
C20_RaisingRecordSkipped ==
  pc = "t_done" =>
    /\ errors = Cardinality({i \in PassingFilter : RecordRaises(i)})
    /\ \A i \in PassingFilter :
          RecordRaises(i) =>
            _transform_parent(ent, reg, now, raw[i]) \notin Range(parent_records)

\* the value a raw record holds for the embedded array of a child table
EmbeddedArray(i, cn) ==
  get(raw[i], child_tables(ent)[cn].api_field, ListV(<<>>))

\* a list whose elements are all objects
ListOfObjects(arr) ==
  arr.t = "list" /\ \A k \in 1..Len(arr.v) : arr.v[k].t = "dict"

\* the raw parent identifier as a string
Stringified(i) == IF raw[i].id = None THEN "None" ELSE raw[i].id

\* the number of children the records at positions 1..n are to produce
RECURSIVE ChildrenExpected(_, _)
ChildrenExpected(n, cn) ==
  IF n = 0 THEN 0
  ELSE ChildrenExpected(n - 1, cn)
         + (IF n \in PassingFilter /\ ListOfObjects(EmbeddedArray(n, cn))
            THEN Len(EmbeddedArray(n, cn).v) ELSE 0)

\* the region and the parent identifier of the children, and no exception
\* for an array that is absent or not a list
ChildrenWellFormed ==
  /\ \A i \in 1..Len(raw), cn \in DOMAIN child_tables(ent) :
        LET arr == EmbeddedArray(i, cn)
            out == _transform_children(ent, reg, raw[i], cn)
        IN /\ arr.t # "list" => out.ok /\ out.rows = <<>>
           /\ \A k \in 1..Len(out.rows) :
                 /\ out.rows[k].region_code = reg
                 /\ out.rows[k]._parent_api_id = Stringified(i)
  /\ \A cn \in DOMAIN child_records :
        \A k \in 1..Len(child_records[cn]) :
           /\ child_records[cn][k].region_code = reg
           /\ \E i \in PassingFilter :
                 child_records[cn][k]._parent_api_id = Stringified(i)

C31_ChildFieldsMapped ==
  pc = "t_done" =>
    \A i \in 1..Len(raw), cn \in DOMAIN child_tables(ent) :
       LET cfg == child_tables(ent)[cn]
           fm == get(cfg, "fields_mapping", <<>>)
           nf == get(cfg, "nested_fields", <<>>)
           arr == EmbeddedArray(i, cn)
           out == _transform_children(ent, reg, raw[i], cn)
       IN ("fields_mapping" \in DOMAIN cfg /\ ListOfObjects(arr)) =>
            /\ Len(out.rows) = Len(arr.v)
            /\ \A k \in 1..Len(arr.v) :
                  /\ \A f \in DOMAIN fm \cap DOMAIN arr.v[k].v :
                        /\ fm[f] \in DOMAIN out.rows[k]
                        /\ out.rows[k][fm[f]] = arr.v[k].v[f]
                  /\ \A g \in DOMAIN nf \cap DOMAIN arr.v[k].v :
                        arr.v[k].v[g].t = "dict" =>
                          \A f \in DOMAIN nf[g] \cap DOMAIN arr.v[k].v[g].v :
                             /\ nf[g][f] \in DOMAIN out.rows[k]
                             /\ out.rows[k][nf[g][f]] = arr.v[k].v[g].v[f]

\* C32: the parent of every raw record holds every sub-column declared in
\* nested_fields: the sub-field's value when the nested object is present,
\* null when the nested object is null or missing; so does every parent
\* transform returns.
C32_NestedFlattened ==
  pc = "t_done" =>
    LET nf == nested_fields(ent)
    IN /\ \A i \in 1..Len(raw), pf \in DOMAIN nf :
            LET parent == _transform_parent(ent, reg, now, raw[i])
                object == get(raw[i], pf, NoneV)
            IN \A sf \in DOMAIN nf[pf] :
                  /\ nf[pf][sf] \in DOMAIN parent
                  /\ parent[nf[pf][sf]] =
                       IF object.t = "dict" THEN get(object.v, sf, None)
                       ELSE None
       /\ \A k \in 1..Len(parent_records), pf \in DOMAIN nf :
            \A sf \in DOMAIN nf[pf] : nf[pf][sf] \in DOMAIN parent_records[k]

\* the number a raw value of the column spells, as the column writes it
\* (the first word of a str for rate_paid, which strips a currency suffix)
Spelled(c, value) ==
  IF value.t = "text" /\ c = "rate_paid" THEN first_word(value.v)
  ELSE IF value.t = "text" THEN strip(value.v)
  ELSE <<>>

Parses(c, value) == value.t = "num" \/ numeral(Spelled(c, value))

ParsedValue(c, value) ==
  LET n == IF value.t = "num" THEN value.v ELSE number(Spelled(c, value))
  IN IF c = "company_id" THEN ToString(n) ELSE ToString(n) \o ".0"

\* C33: numeric coercion is total and deterministic: a raw value that parses
\* (a number or a numeric string, zero included) yields its numeric value,
\* any other value (missing, null, empty, blank, list, object, unparsable)
\* yields null, and no exception is raised.
C33_NumericCoercion ==
  pc = "t_done" =>
    LET fm == fields_mapping(ent)
        numeric == {f \in DOMAIN fm : fm[f] \in NumericColumns}
        Expected(f, r) ==
          LET value == get(r, f, NoneV)
          IN IF Parses(fm[f], value) THEN ParsedValue(fm[f], value) ELSE None
    IN /\ \A i \in 1..Len(raw), f \in numeric :
            _transform_parent(ent, reg, now, raw[i])[fm[f]] = Expected(f, raw[i])
       /\ \A k \in 1..Len(parent_records), f \in numeric :
            \E i \in PassingFilter :
               parent_records[k][fm[f]] = Expected(f, raw[i])

\* the positions of the raw records whose status is the configured one
StatusKept ==
  {i \in 1..Len(raw) :
     "status" \in DOMAIN raw[i] /\ raw[i].status = transform_filter_status(ent)}

\* C34: with transform_filter_status configured, transform handles exactly
\* the raw records whose status equals the configured value: every parent and
\* every child of the output comes from such a record, and a record with
\* another or no status gives neither parent nor child.
C34_StatusFilter ==
  (pc = "t_done" /\ truthy(transform_filter_status(ent))) =>
    /\ transformed = Cardinality(StatusKept)
    /\ \A k \in 1..Len(parent_records) :
          \E i \in StatusKept :
             parent_records[k] = _transform_parent(ent, reg, now, raw[i])
    /\ \A i \in (1..Len(raw)) \ StatusKept :
          _transform_parent(ent, reg, now, raw[i]) \notin Range(parent_records)
    /\ \A cn \in DOMAIN child_records :
          /\ \A k \in 1..Len(child_records[cn]) :
                \E i \in StatusKept :
                   child_records[cn][k] \in
                     Range(_transform_children(ent, reg, raw[i], cn).rows)
          /\ \A i \in (1..Len(raw)) \ StatusKept :
                (\A j \in StatusKept : raw[j].id # raw[i].id) =>
                  \A k \in 1..Len(child_records[cn]) :
                     child_records[cn][k]._parent_api_id # Stringified(i)

\* C34 witness: an active property, an inactive one and one without status,
\* each with a photo, have been transformed into one parent and one child
C34_Witness ==
  /\ pc = "t_done"
  /\ truthy(transform_filter_status(ent))
  /\ \E i, j, k \in 1..Len(raw) :
        /\ i \in StatusKept
        /\ "status" \notin DOMAIN raw[j]
        /\ get(raw[k], "status", None) = "inactive"
        /\ ListOfObjects(EmbeddedArray(i, "photos"))
        /\ Len(EmbeddedArray(i, "photos").v) > 0
        /\ Len(EmbeddedArray(j, "photos").v) > 0
        /\ Len(EmbeddedArray(k, "photos").v) > 0
  /\ Len(parent_records) = 1
  /\ Len(child_records["photos"]) > 0

(***************************************************************************)
(* Claims about load (under SpecLoad).                                     *)
(***************************************************************************)
LoadPhases == {"ld_parents", "ld_fks", "ld_children", "ld_commit", "ld_except"}

\* C4: the load is atomic: nothing is committed before COMMIT; if a step
\* raises, the store and the connection's view are as before the load and the
\* exception propagates; otherwise the parent upsert, the FK resolution and
\* the child upserts are committed together.
C4_LoadAtomic ==
  /\ pc \in LoadPhases => store = pre_store
  /\ pc = "load_failed" =>
       /\ store = pre_store
       /\ db = pre_store
       /\ exc # "none"
  /\ pc = "loaded" =>
       /\ store = load(pre_store, ent, reg, now, parent_records, child_records)
       /\ db = store
       /\ exc = "none"

\* C4 witness: COMMIT failed after parents and children had been written
C4_Witness ==
  /\ pc = "load_failed"
  /\ exc = "COMMIT"
  /\ store = pre_store
  /\ \E t \in Tables :
        load(pre_store, ent, reg, now, parent_records, child_records)[t]
          # pre_store[t]
  /\ \E cn \in DOMAIN child_records : child_records[cn] # <<>>

\* the child table of the entity being loaded
ChildCfg == child_tables(ent)[child_types(ent)[1]]

\* the child records transform produced for that table
ChildBatch == child_records[child_types(ent)[1]]

\* the child upsert of this load has run
ChildrenUpserted == pc \in {"ld_commit", "loaded"}

\* the child rows this load wrote
WrittenChildren == db[ChildCfg.table_name] \ pre_store[ChildCfg.table_name]

\* C8: every child row the load writes carries exactly the table's columns
\* (no _parent_api_id) and its parent FK is the surrogate key of a parent row
\* of the run's tenant whose identifier is the _parent_api_id of the child
\* record it comes from; unresolvable children are dropped and the load never
\* fails on account of the data.
C8_ChildFkResolved ==
  /\ ChildrenUpserted =>
       \A row \in WrittenChildren :
          /\ DOMAIN row = TableColumns(ChildCfg.table_name)
          /\ \E p \in db[table_name(ent)] :
                /\ p.id = row[ChildCfg.parent_fk]
                /\ p.region_code = reg
                /\ \E i \in 1..Len(ChildBatch) :
                      /\ ChildBatch[i]._parent_api_id
                           = str(p[parent_db_id_field(ent)])
                      /\ \A c \in DOMAIN ChildBatch[i] \ InternalFields :
                            row[c] = ChildBatch[i][c]
  /\ pc = "load_failed" => exc # "SqlError"

\* C8 witness: a load committed after dropping one child and writing another
C8_Witness ==
  /\ pc = "loaded"
  /\ \E i \in 1..Len(ChildBatch) : ChildBatch[i]._parent_api_id = ""
  /\ WrittenChildren # {}

\* every child record whose parent record is in the batch (and, if asked,
\* has a non-empty identifier) is in the child table with the surrogate key
\* of that parent's row
ChildrenOfBatchPersisted(non_empty_only) ==
  ChildrenUpserted =>
    \A i \in 1..Len(ChildBatch) :
       LET c == ChildBatch[i]
       IN (/\ \E k \in 1..Len(parent_records) :
                str(parent_records[k][parent_db_id_field(ent)]) = c._parent_api_id
           /\ non_empty_only => c._parent_api_id # "")
          => \E p \in db[table_name(ent)], row \in db[ChildCfg.table_name] :
                /\ p.region_code = reg
                /\ str(p[parent_db_id_field(ent)]) = c._parent_api_id
                /\ row[ChildCfg.parent_fk] = p.id
                /\ \A k \in Range(ChildCfg.natural_key) \ {ChildCfg.parent_fk} :
                      row[k] = c[k]

C10_UpsertIdempotent ==
  pc = "ld_fks" =>
    LET t == table_name(ent)
        nk == natural_key(ent)
    IN /\ \A r1, r2 \in db[t] :
             key_tuple(r1, nk) = key_tuple(r2, nk) => r1 = r2
       /\ \A i \in 1..Len(parent_records) :
             \A o \in pre_store[t] :
                key_tuple(o, nk) = key_tuple(parent_records[i], nk) =>
                  \E n \in db[t] :
                     /\ n.id = o.id
                     /\ n.created_at = o.created_at
                     /\ \A c \in DOMAIN parent_records[i] \ Range(nk) :
                           n[c] = parent_records[i][c]
       /\ _upsert_parents(db, ent, now, parent_records).view[t] = db[t]

\* C11: parent-to-parent FK resolution is idempotent: right after it ran, a
\* second run would update zero rows, and the run left every row whose FK
\* column was already set as it was.
C11_FkResolutionIdempotent ==
  [][(pc = "ld_fks" /\ pc' = "ld_children") =>
       /\ fk_update_targets(db', ent, reg) = {}
       /\ ent = "reservations" =>
            \A r \in db["reservations"] :
               r.property_pk # NullPk => r \in db'["reservations"]]_vars

\* C11 witness: the resolution set the FK of a row of this load while another
\* row of the tenant had its FK set by an earlier load
C11_Witness ==
  /\ pc = "ld_children"
  /\ ent = "reservations"
  /\ \E o \in pre_store["reservations"] :
        o.region_code = reg /\ o.property_pk # NullPk
  /\ \E r \in db["reservations"] :
        /\ r.property_pk # NullPk
        /\ r.id \notin {o.id : o \in pre_store["reservations"]}

(***************************************************************************)
(* Claims about extract and fetch_api_children (under SpecExtract).        *)
(***************************************************************************)
\* the requests of the extractor and of the API-child fetcher (not those of
\* the token manager)
is_api_get(r) == r.url \notin {"/refresh", "/"}

ApiGets == SelectSeq(requests_log, is_api_get)

\* two requests for the same URL
same_request(r, q) == r.url = q.url /\ r.id = q.id /\ r.page = q.page

\* the result lists of the pages from..to - 1 of the endpoint, concatenated
RECURSIVE pages_before(_, _)
pages_before(from, to) ==
  IF from >= to THEN <<>>
  ELSE api_page(api_records, PageSize, from) \o pages_before(from + 1, to)

\* C12: in standard mode the pages are requested in the order 1, 2, 3, ...;
\* extract returns the concatenation in page order of the result lists of the
\* pages before the first page without results; a bare array is returned as
\* it is after a single request.
C12_StandardPagination ==
  (pc \in {"x_page", "x_done", "x_raised"} /\ ~requires_property_filter(ent)) =>
     /\ \A i \in 1..Len(ApiGets) :
          ApiGets[i].url = endpoint(ent) /\ ApiGets[i].page = i
     /\ pc = "x_done" =>
          IF api_format = "list"
          THEN Len(ApiGets) = 1 /\ raw = api_records
          ELSE /\ \A p \in 1..(Len(ApiGets) - 1) :
                    api_page(api_records, PageSize, p) # <<>>
               /\ api_page(api_records, PageSize, Len(ApiGets)) = <<>>
               /\ raw = pages_before(1, Len(ApiGets))

\* C12 witness: three pages with results and a fourth without
C12_Witness ==
  /\ pc = "x_done"
  /\ ~requires_property_filter(ent)
  /\ api_format = "dict"
  /\ Len(ApiGets) = 4
  /\ Len(raw) > 2 * PageSize

\* the properties whose request for tasks was answered
FetchedHomes ==
  {requests_log[i].id :
     i \in {j \in DOMAIN requests_log :
              requests_log[j].url = "/task" /\ requests_log[j].status = 200}}

\* C13 (as claimed): in fan-out mode every task the source holds for a
\* property whose fetch succeeded is returned, also when the property has more
\* tasks than a page holds.
C13_FanOutComplete ==
  (pc = "x_done" /\ requires_property_filter(ent)) =>
     \A h \in FetchedHomes : Range(api_tasks[h]) \subseteq Range(raw)

\* what the fetches of the properties from position i on returned
RECURSIVE fetched_tasks(_)
fetched_tasks(i) ==
  IF i > Len(properties) THEN <<>>
  ELSE (IF properties[i].property_id \in FetchedHomes
        THEN api_page(api_tasks[properties[i].property_id], PageSize, 1)
        ELSE <<>>) \o fetched_tasks(i + 1)

attempts(i) ==
  Cardinality({j \in 1..i : same_request(requests_log[j], requests_log[i])})

\* C16 (as claimed): a request of the extractor that times out or is answered
\* with a 5xx status is retried until max_retries requests were made.
C16_TransientRetried ==
  \A i \in DOMAIN requests_log :
     (is_api_get(requests_log[i]) /\ requests_log[i].status \in {NoResponse, 500}) =>
        \/ attempts(i) = max_retries
        \/ /\ i < Len(requests_log)
           /\ same_request(requests_log[i + 1], requests_log[i])

C18_RateLimitRetried ==
  \A i \in DOMAIN requests_log :
     (requests_log[i].status = 429 /\ requests_log[i].waited = 0) =>
        /\ i < Len(requests_log)
        /\ same_request(requests_log[i + 1], requests_log[i])
        /\ requests_log[i + 1].waited = retry_after(requests_log[i].retry_after)

\* C19 (as claimed): the in-memory call counter and the tracker's call counter
\* are equal to each other and to the number of API requests issued.
C19_CallCounters ==
  /\ api_calls = tracker_api_calls
  /\ api_calls = Len(ApiGets)

\* the child records of this load after the parent-FK resolution, and the
\* batch handed to the child upsert
ResolvedChildren ==
  child_resolved(db, store, ent, reg, child_types(ent)[1], ChildBatch)

UpsertBatch ==
  child_batch(db, store, ent, reg, child_types(ent)[1], ChildBatch)

HadRow ==
  {i \in 1..Len(parent_records) :
     conflicting(pre_store[table_name(ent)],
                 DOMAIN parent_records[i] \ InternalFields,
                 natural_key(ent), parent_records[i]) # {}}

\* C21 (as claimed): after the parent upsert of a batch of any size, inserted
\* is the number of records whose natural key had no row before the load,
\* updated the number of those whose key had one, and both add up to the
\* number of parent records.
C21_ExactUpsertCounts ==
  pc \in {"ld_fks", "ld_children", "ld_commit", "loaded"} =>
     /\ records_inserted = Len(parent_records) - Cardinality(HadRow)
     /\ records_updated = Cardinality(HadRow)
     /\ records_inserted + records_updated = Len(parent_records)

\* the rows of the entity's table the load inserted, and those it updated
RowsInserted ==
  {r \in store[table_name(ent)] :
     r.id \notin {o.id : o \in pre_store[table_name(ent)]}}

RowsUpdated == pre_store[table_name(ent)] \ store[table_name(ent)]

\* C22 (as claimed): the record of a run that completed holds processed = the
\* deduplicated parents loaded, new = the rows the loader inserted and
\* updated = the rows the loader updated.
C22_SyncRecordCounts ==
  pc = "completed" =>
     /\ sync_record.sync_status = "success"
     /\ sync_record.records_processed = Len(parent_records)
     /\ sync_record.records_new = Cardinality(RowsInserted)
     /\ sync_record.records_updated = Cardinality(RowsUpdated)


\* the tag references of the raw elements of the tasks with identifier task_id
TagReferences(task_id) ==
  UNION {LET tt == get(raw[i], "task_tags", ListV(<<>>))
         IN IF str(get(raw[i], "id", "")) = task_id /\ tt.t = "list"
            THEN {str(get(tt.v[j].v, "id", "")) : j \in 1..Len(tt.v)}
            ELSE {}
         : i \in 1..Len(raw)}

\* the tags row of the same tenant a task_tags row points to
TagOf(view, r) ==
  {g \in view["tags"] : g.id = r.tag_pk /\ g.region_code = r.region_code}

\* the task a task_tags row belongs to
TaskOf(view, r) == {k \in view["tasks"] : k.id = r.task_pk}

\* C25: every task_tags row, in the transaction and committed, points to a
\* tags row of its own tenant; a row written by the run points to a tag whose
\* tag_id is a tag reference of the raw task it belongs to; the records
\* handed to the upsert carry tag_pk and no tag_id; and the upsert of the
\* children does not fail, whatever references cannot be resolved
C25_TagBridgeResolved ==
  ent = "tasks" =>
    /\ \A view \in {db, store} : \A r \in view["task_tags"] :
          /\ TagOf(view, r) # {}
          /\ r \notin pre_store["task_tags"] =>
                \E g \in TagOf(view, r), k \in TaskOf(view, r) :
                   /\ k.region_code = reg
                   /\ g.region_code = reg
                   /\ g.tag_id \in TagReferences(k.task_id)
    /\ pc = "ld_children" =>
          /\ \A i \in 1..Len(UpsertBatch) :
                /\ "tag_pk" \in DOMAIN UpsertBatch[i]
                /\ "tag_id" \notin DOMAIN UpsertBatch[i]
          /\ upsert_all_children(db, store, ent, reg, now, child_types(ent),
                                 child_records).ok

\* the children were upserted: a tag reference was resolved to a row of this
\* tenant while the other tenant holds a tag of the same tag_id, and records
\* with a missing and with an unknown tag reference were in the batch
C25_Witness ==
  /\ ent = "tasks"
  /\ pc = "ld_commit"
  /\ db["task_tags"] # pre_store["task_tags"]
  /\ \E g \in db["tags"], h \in db["tags"] :
        g.tag_id = h.tag_id /\ g.region_code = reg /\ h.region_code # reg
  /\ \E i \in 1..Len(child_records["task_tags"]) :
        "tag_id" \notin DOMAIN child_records["task_tags"][i]
  /\ \E i \in 1..Len(child_records["task_tags"]) :
        get(child_records["task_tags"][i], "tag_id", "t") = "z"


\* the run is in fetch_api_children
InFetcher == pc \in {"f_begin", "f_parent", "f_done"}

\* the requests for the children of table c of the parent with identifier id
child_requests(c, id) ==
  {j \in DOMAIN requests_log :
     requests_log[j].url = endpoint_template(c) /\ requests_log[j].id = id}

\* the children of table c the fetcher holds or has returned
fetched_children(c) ==
  IF pc = "f_parent" /\ api_child_tables(ent)[cidx] = c THEN child_records_list
  ELSE get(child_records, c, <<>>)

\* the children the successful requests of table c returned for the parents
\* from position i on
RECURSIVE children_of_fetched(_, _)
children_of_fetched(c, i) ==
  IF i > Len(parent_records) THEN <<>>
  ELSE LET id == get(parent_records[i], parent_id_field(c), None)
           answered == \E j \in child_requests(c, id) :
                          request_exception(requests_log[j]) = "none"
           held == api_children_of(c, id)
       IN (IF truthy(id) /\ answered
           THEN [k \in DOMAIN held |-> transformed_child(c, reg, held[k], id)]
           ELSE <<>>) \o children_of_fetched(c, i + 1)

\* C26: no failure leaves fetch_api_children; no request is issued for a
\* parent without identifier, and at most one for every other parent; every
\* child held carries the stringified identifier of a parent of the batch;
\* and what is returned for a table is, parent by parent, what the answered
\* requests returned, whatever requests of other parents failed
C26_ChildFetchIsolation ==
  /\ [][InFetcher => (InFetcher' /\ exc' = "none")]_vars
  /\ [](InFetcher =>
        \A ci \in DOMAIN api_child_tables(ent) :
          LET c == api_child_tables(ent)[ci]
          IN /\ \A j \in DOMAIN requests_log :
                  requests_log[j].url = endpoint_template(c) =>
                    truthy(requests_log[j].id)
             /\ \A i \in DOMAIN parent_records :
                  Cardinality(child_requests(c, parent_records[i].task_id)) <= 1
             /\ \A k \in DOMAIN fetched_children(c) :
                  \E i \in DOMAIN parent_records :
                     /\ truthy(parent_records[i].task_id)
                     /\ fetched_children(c)[k]._parent_api_id =
                          str(parent_records[i].task_id)
             /\ pc = "f_done" =>
                  get(child_records, c, <<>>) = children_of_fetched(c, 1))

\* C26 witness: the fetcher returned; the request for the comments of the
\* first parent failed and the comments of the second parent were returned
C26_Witness ==
  /\ pc = "f_done"
  /\ Len(parent_records) = 2
  /\ truthy(parent_records[1].task_id)
  /\ truthy(parent_records[2].task_id)
  /\ \E j \in child_requests("comments", parent_records[1].task_id) :
        request_exception(requests_log[j]) # "none"
  /\ \E k \in DOMAIN child_records["comments"] :
        child_records["comments"][k]._parent_api_id = str(parent_records[2].task_id)

\* the rows of a table that belong to other tenants than the run's
OtherTenants(view, t) == {r \in view[t] : r.region_code # reg}

\* the rows of table t the key c of row r refers to
Referenced(view, t, r, c) == {q \in view[t] : q.id = r[c]}

\* C27: in the transaction and in the committed store the rows of other
\* tenants are those the run found, in every table; a task with property_pk
\* refers to a property of its own tenant, and a task_tags row to a task and
\* a tag of its own tenant
C27_TenantScoped ==
  \A view \in {db, store} :
    /\ \A t \in Tables : OtherTenants(view, t) = OtherTenants(pre_store, t)
    /\ \A k \in view["tasks"] :
         k.property_pk # NullPk =>
           \E p \in Referenced(view, "properties", k, "property_pk") :
              p.region_code = k.region_code /\ p.property_id = k.home_id
    /\ \A r \in view["task_tags"] :
         /\ \E k \in Referenced(view, "tasks", r, "task_pk") :
               k.region_code = r.region_code
         /\ \E g \in Referenced(view, "tags", r, "tag_pk") :
               g.region_code = r.region_code

\* C27 witness: the load was committed; a task the run wrote refers to the
\* property "a" that only the other tenant holds and has no property_pk,
\* its tag was resolved, and the other tenant holds a task and tags
C27_Witness ==
  /\ ent = "tasks"
  /\ pc = "loaded"
  /\ OtherTenants(store, "tasks") # {}
  /\ OtherTenants(store, "tags") # {}
  /\ \E k \in store["tasks"] \ pre_store["tasks"] :
        /\ k.region_code = reg
        /\ k.property_pk = NullPk
        /\ \E p \in OtherTenants(store, "properties") : p.property_id = k.home_id
        /\ \E r \in store["task_tags"] : r.task_pk = k.id

Ended ==
  /\ pc \in {"done", "x_done", "x_raised", "fast"}
  /\ main_pc \in {"idle", "done", "raised"}
  /\ \A r \in DOMAIN fetches : pool_load(fetches[r]) = 0

UpdateFailedOnLoggedEvent ==
  wh_pc = "responded" /\ event_id # 0 /\ update_error # None

RowCounters(row) == <<row.records_new, row.records_updated>>

\* the run itself writes the row: every step but the construction, which
\* only finds the row earlier batches left
RunWritesRow == pc # "init" /\ sync_record' # sync_record

\* C36: a run sets its sync record to 'success' only once its load has
\* committed or its extraction returned no records, and the counters new and
\* updated of the tracker and of the row, where the run sets them to anything
\* but zero, are those of the committed load.
C36_SuccessOnlyAfterCommit ==
  [][/\ RunWritesRow /\ sync_record'.sync_status = "success"
        => load_committed' \/ fetched' = "empty"
     /\ tracker_stats' # [new |-> 0, updated |-> 0]
        => /\ load_committed'
           /\ tracker_stats' = [new |-> records_inserted',
                                updated |-> records_updated']
     /\ RunWritesRow /\ RowCounters(sync_record') # <<0, 0>>
        => /\ load_committed'
           /\ sync_record'.sync_status = "success"
           /\ RowCounters(sync_record')
                = <<records_inserted', records_updated'>>]_vars

\* a run that loaded one new record returned with the row at 'success'
C36_Witness ==
  /\ pc = "return"
  /\ fetched = "some"
  /\ load_committed
  /\ sync_status = "success"
  /\ sync_record.sync_status = "success"
  /\ sync_record.records_new = 1
  /\ records_inserted = 1

(***************************************************************************)
(* The columns of the parent upsert (SpecLoad).                            *)
(***************************************************************************)
\* C37: after the parent upsert every record of the batch has its row, and
\* the row holds the record's value in every non-internal column the record
\* carries, whatever columns the first record of the batch has.
C37_EveryColumnWritten ==
  pc = "ld_fks" =>
    LET t == table_name(ent)
        nk == natural_key(ent)
    IN \A i \in 1..Len(parent_records) :
          \E n \in db[t] :
             /\ key_tuple(n, nk) = key_tuple(parent_records[i], nk)
             /\ \A c \in DOMAIN parent_records[i] \ InternalFields :
                   c \in DOMAIN n /\ n[c] = parent_records[i][c]

(***************************************************************************)
(* Resolved references after an identifier changed (SpecLoad).             *)
(***************************************************************************)
\* the rows of reservations and tasks of the committed store
ReferringRows == store["reservations"] \cup store["tasks"]

\* C38: in the committed store every reservation and task row with a
\* property_pk refers to the property row of its tenant whose property_id is
\* the row's current property_id (reservations) or home_id (tasks).
C38_ResolvedFkCurrent ==
  \A r \in ReferringRows :
     r.property_pk # NullPk =>
       \E p \in store["properties"] :
          /\ p.id = r.property_pk
          /\ p.region_code = r.region_code
          /\ p.property_id = fk_reference(r)

(***************************************************************************)
(* The last successful sync of a pair (SpecTracker).                       *)
(***************************************************************************)
\* the step is a complete() of the pair that returned
Completes(pair) ==
  trackers[pair].at = "started" /\ trackers'[pair].at = "completed"

\* C39: the last-successful-sync timestamp of a pair is changed only by a
\* complete() of the pair, start() and fail() leave it as it is;
\* get_last_sync_time returns when the most recent successful run of the
\* pair completed, or null if none did; the log has at most one row a pair.
C39_LastSuccessfulSync ==
  /\ [][\A pair \in TrackedPairs :
          get_last_sync_time(etl_sync_log', pair)
            # get_last_sync_time(etl_sync_log, pair) => Completes(pair)]_vars
  /\ [](pc = "tracker" =>
          \A pair \in TrackedPairs :
             /\ get_last_sync_time(etl_sync_log, pair) = completed_at[pair]
             /\ Cardinality({row \in etl_sync_log : of_pair(row, pair)}) <= 1)

\* a run of the pair failed after an earlier one had completed: the row is
\* 'failed' and still holds the time of the earlier completion
C39_Witness ==
  /\ pc = "tracker"
  /\ \E pair \in TrackedPairs : \E row \in etl_sync_log :
        /\ of_pair(row, pair)
        /\ trackers[pair].at = "failed"
        /\ row.sync_status = "failed"
        /\ row.last_successful_sync_at # NullTs
        /\ row.last_successful_sync_at # row.sync_completed_at
        /\ row.last_successful_sync_at = completed_at[pair]

====
